---- MODULE Spec2Model ----
(***************************************************************************)
(* A model of the yaos kernel core: the scheduler and process table, the   *)
(* syscall handler, the stdin buffer and the trap dispatch of one hart.    *)
(*                                                                         *)
(* A handler runs with interrupts disabled, so every action below is one   *)
(* complete trap: entry, the handler with every call it makes, and the     *)
(* return.  The handlers are written as operators from a kernel state      *)
(* record to a kernel state record so that the calls of one handler        *)
(* compose in source order.                                                *)
(***************************************************************************)
EXTENDS Integers, Sequences, FiniteSets, TLC

VARIABLES
    process_table,    \* ProcessTable.processes: pid -> Process
    dummy_process,    \* ProcessTable's dummy process (saved context only)
    current_process,  \* Scheduler.current_process, as a pid (NEVER_PID: the dummy)
    next_pid,         \* the pid the next Process::from_elf assigns
    cpu,              \* the hart: sepc, trap frame a0, mode, satp, timer, sscratch
    stdin_buffer,     \* StdinBuffer: data, wakeup_queue
    open_udp_sockets, \* OPEN_UDP_SOCKETS: port -> shared socket
    arp_cache,        \* ARP_CACHE: the ips with a known mac
    nic,              \* frames received by the network device, not yet processed
    halted,           \* "no", or why the hart stopped: "panic", "shutdown", "deadlock"
    sched_log,        \* history: the pids installed by the latest schedule() calls
    stdin_log,        \* history: the bytes push enqueued, the bytes pop returned
    last_trap,        \* history: the trap handled last, its input and whom it woke
    heap,             \* Heap: the free list, the block headers, the pages taken
    hart1             \* a second hart: its current process, its registers and
                      \* how far it is in sys_read_input_wait

vars == <<process_table, dummy_process, current_process, next_pid, cpu,
          stdin_buffer, open_udp_sockets, arp_cache, nic, halted, sched_log,
          stdin_log, last_trap, heap, hart1>>

----------------------------------------------------------------------------
(* Bounds of the model *)

\* pids 1..MaxPid can be assigned; start_program is not called beyond
MaxPid == 3
\* longest stdin data queue
MaxStdin == 1
\* frames waiting in the network device
MaxNic == 1
\* datagrams buffered in one socket
MaxSockData == 1
\* pids assigned when the network syscalls are explored
MaxNetPid == 2
\* pids assigned when the wake-up of shells blocked for input is explored
MaxWakePid == 4
\* longest stdin data queue while the order of consumption is recorded
MaxFifo == 3
\* bytes recorded as enqueued
MaxLog == 4
\* pages the page allocator can hand to the heap
MaxHeapPages == 2
\* alloc and dealloc calls in one run of the heap
MaxHeapOps == 6
\* alloc and dealloc calls before the cycles of one layout begin
MaxCyclePrefix == 3
\* cycles of alloc and dealloc with one layout
MaxCycles == 3

(* Program constants *)

\* the dummy's pid, reserved
NEVER_PID == 0
\* address of cpu::wfi_loop
wfi_loop == 100
\* entry point of a freshly loaded ELF
ENTRY == 0

Bytes == {1, 2}
UserPcs == {0}
\* two ecall sites, for the traps that are told apart by their address
EcallPcs == {0, 8}
PROGRAMS == {"yash", "loop"}
INIT == "init"
ProgramNames == PROGRAMS \cup {"nope"}

KERNEL_PAGE_TABLES == NEVER_PID
KernelTrapFrame == [owner |-> "kernel", pid |-> NEVER_PID]
ProcessTrapFrame(pid) == [owner |-> "process", pid |-> pid]

\* Syscall results as they arrive in a0
OK_UNIT == 0
NONE_BYTE == -1
ERR_INVALID_PROGRAM == -2
ERR_INVALID_PID == -3
ERR_INVALID_PTR == -4
ERR_PORT_ALREADY_USED == -5
ERR_INVALID_DESCRIPTOR == -6
ERR_NO_RECEIVE_IP_YET == -7
ERR_INVALID_SYSCALL == -8

----------------------------------------------------------------------------
(* The kernel state as one record *)

St ==
    [pt |-> process_table, dummy |-> dummy_process, cur |-> current_process,
     next_pid |-> next_pid, cpu |-> cpu, stdin |-> stdin_buffer,
     socks |-> open_udp_sockets, arp |-> arp_cache, nic |-> nic,
     halted |-> halted, dropped |-> {}]

Install(s) ==
    /\ process_table' = s.pt
    /\ dummy_process' = s.dummy
    /\ current_process' = s.cur
    /\ next_pid' = s.next_pid
    /\ cpu' = s.cpu
    /\ stdin_buffer' = s.stdin
    /\ open_udp_sockets' = s.socks
    /\ arp_cache' = s.arp
    /\ nic' = s.nic
    /\ halted' = s.halted

\* the element of a one-element set: Only({f(x) : x \in {e}}) is f(e) with e
\* evaluated once
Only(S) == CHOOSE x \in S : TRUE

Min(S) == CHOOSE x \in S : \A y \in S : x <= y
Max(S) == CHOOSE x \in S : \A y \in S : x >= y

----------------------------------------------------------------------------
(* Process and ProcessTable *)

\* Process::from_elf: a fresh process, Runnable, at the ELF's entry point
from_elf(s, name) ==
    [name |-> name, state |-> "Runnable", pc |-> ENTRY, in_kernel_mode |-> FALSE,
     a0 |-> 0, notify_on_die |-> {}, udp_sockets |-> {}, mmap_pages |-> 0]

\* ProcessTable::add_process, with the pid Process::from_elf took from the counter
add_process(s, process) ==
    [s EXCEPT !.pt = [p \in DOMAIN s.pt \cup {s.next_pid} |->
                         IF p = s.next_pid THEN process ELSE s.pt[p]],
              !.next_pid = s.next_pid + 1]

get_process(s, pid) == pid \in DOMAIN s.pt

is_empty(s) == DOMAIN s.pt = {}

set_state(s, pid, state) == [s EXCEPT !.pt[pid].state = state]

\* Process::set_syscall_return_code: the a0 slot of the saved register state
set_syscall_return_code(s, pid, code) == [s EXCEPT !.pt[pid].a0 = code]

\* next_runnable that takes the next pid of the table, whatever its state
next_runnable_any_state(s, old_pid) ==
    LET after == {p \in DOMAIN s.pt : p > old_pid}
    IN  IF DOMAIN s.pt = {} THEN NEVER_PID
        ELSE IF after # {} THEN Min(after) ELSE Min(DOMAIN s.pt)

\* ProcessTable::next_runnable: round robin in pid order, with wrap
next_runnable(s, old_pid) ==
    LET runnable == {p \in DOMAIN s.pt : s.pt[p].state = "Runnable"}
        after == {p \in runnable : p > old_pid}
    IN  IF runnable = {} THEN NEVER_PID
        ELSE IF after # {} THEN Min(after) ELSE Min(runnable)

\* the highest pid of the table, whatever the names
get_highest_pid_of_all(s, names) ==
    IF DOMAIN s.pt = {} THEN NEVER_PID ELSE Max(DOMAIN s.pt)

\* ProcessTable::get_highest_pid_without
get_highest_pid_without(s, names) ==
    LET cand == {p \in DOMAIN s.pt : s.pt[p].name \notin names}
    IN  IF cand = {} THEN NEVER_PID ELSE Max(cand)

\* kill that wakes every Waiting process, whatever it waits for
kill_wakes_all(s, pid) ==
    IF pid \notin DOMAIN s.pt THEN s
    ELSE [s EXCEPT !.pt = [p \in DOMAIN s.pt \ {pid} |->
             IF s.pt[p].state = "Waiting"
             THEN [s.pt[p] EXCEPT !.state = "Runnable", !.a0 = 0]
             ELSE s.pt[p]]]

\* ProcessTable::kill: remove the entry, wake the processes that wait for it
kill(s, pid) ==
    IF pid \notin DOMAIN s.pt THEN s
    ELSE LET waiters == s.pt[pid].notify_on_die
             rest == DOMAIN s.pt \ {pid}
         IN  [s EXCEPT !.pt = [p \in rest |->
                 IF p \in waiters
                 THEN [s.pt[p] EXCEPT !.state = "Runnable", !.a0 = 0]
                 ELSE s.pt[p]],
                       !.dropped = s.dropped \cup {[pid |-> pid, satp |-> s.cpu.satp]}]

----------------------------------------------------------------------------
(* Scheduler *)

activate_page_table(s, table) == [s EXCEPT !.cpu.satp = table]

set_timer(s) == [s EXCEPT !.cpu.timer = TRUE]

disable_timer(s) == [s EXCEPT !.cpu.timer = FALSE]

set_sscratch_to_kernel_trap_frame(s) == [s EXCEPT !.cpu.sscratch = KernelTrapFrame]

\* Scheduler::swap_current_with_dummy
swap_current_with_dummy(s) == [s EXCEPT !.cur = NEVER_PID]

\* the descheduled process leaves Running (state machine Runnable <-> Running)
mark_descheduled(s, pid) ==
    IF pid \in DOMAIN s.pt /\ s.pt[pid].state = "Running"
    THEN set_state(s, pid, "Runnable") ELSE s

\* the installed process enters Running
mark_running(s, pid) == set_state(s, pid, "Running")

\* queue_current_process_back that leaves the dummy alone
queue_current_process_back_skips_dummy(s) ==
    LET old == s.cur
        s1 == swap_current_with_dummy(s)
    IN  IF old \in DOMAIN s1.pt
        THEN mark_descheduled(
                 [s1 EXCEPT !.pt[old].pc = s.cpu.sepc,
                            !.pt[old].in_kernel_mode = s.cpu.kmode,
                            !.pt[old].a0 = s.cpu.a0], old)
        ELSE s1

\* queue_current_process_back that stores sepc and the mode flag, but not the
\* trap frame
queue_current_process_back_no_frame(s) ==
    LET old == s.cur
        s1 == swap_current_with_dummy(s)
    IN  IF old = NEVER_PID
        THEN [s1 EXCEPT !.dummy = [pc |-> s.cpu.sepc,
                                   in_kernel_mode |-> s.cpu.kmode,
                                   a0 |-> s.dummy.a0]]
        ELSE IF old \in DOMAIN s1.pt
        THEN mark_descheduled(
                 [s1 EXCEPT !.pt[old].pc = s.cpu.sepc,
                            !.pt[old].in_kernel_mode = s.cpu.kmode], old)
        ELSE s1

\* Scheduler::queue_current_process_back: sepc, the mode flag and the CPU trap
\* frame are stored in the process that was current, the dummy included
queue_current_process_back(s) ==
    LET old == s.cur
        s1 == swap_current_with_dummy(s)
    IN  IF old = NEVER_PID
        THEN [s1 EXCEPT !.dummy = [pc |-> s.cpu.sepc,
                                   in_kernel_mode |-> s.cpu.kmode,
                                   a0 |-> s.cpu.a0]]
        ELSE IF old \in DOMAIN s1.pt
        THEN mark_descheduled(
                 [s1 EXCEPT !.pt[old].pc = s.cpu.sepc,
                            !.pt[old].in_kernel_mode = s.cpu.kmode,
                            !.pt[old].a0 = s.cpu.a0], old)
        ELSE s1

\* prepare_next_process that forgets to store the chosen process as current
prepare_next_process_no_current(s) ==
    LET old_pid == s.cur
        s1 == queue_current_process_back(s)
    IN  IF is_empty(s1)
        THEN [s |-> [s1 EXCEPT !.halted = "shutdown"], ok |-> FALSE]
        ELSE LET next == next_runnable(s1, old_pid)
             IN  IF next = NEVER_PID
                 THEN [s |-> s1, ok |-> FALSE]
                 ELSE LET p == s1.pt[next]
                          s2 == [s1 EXCEPT !.cpu.a0 = p.a0,
                                           !.cpu.sepc = p.pc,
                                           !.cpu.kmode = p.in_kernel_mode,
                                           !.cpu.satp = next]
                      IN  [s |-> mark_running(s2, next), ok |-> TRUE]

\* prepare_next_process that points sscratch at the chosen process's own
\* register state instead of copying it into the hart's frame
prepare_next_process_sscratch(s) ==
    LET old_pid == s.cur
        s1 == queue_current_process_back(s)
    IN  IF is_empty(s1)
        THEN [s |-> [s1 EXCEPT !.halted = "shutdown"], ok |-> FALSE]
        ELSE LET next == next_runnable(s1, old_pid)
             IN  IF next = NEVER_PID
                 THEN [s |-> s1, ok |-> FALSE]
                 ELSE LET p == s1.pt[next]
                          s2 == [s1 EXCEPT !.cpu.a0 = p.a0,
                                           !.cpu.sscratch = ProcessTrapFrame(next),
                                           !.cpu.sepc = p.pc,
                                           !.cpu.kmode = p.in_kernel_mode,
                                           !.cpu.satp = next,
                                           !.cur = next]
                      IN  [s |-> mark_running(s2, next), ok |-> TRUE]

\* prepare_next_process that shuts the system down when no process is
\* runnable, as the scheduler did before the process table had is_empty
prepare_next_process_no_runnable(s) ==
    LET old_pid == s.cur
        s1 == queue_current_process_back(s)
        next == next_runnable(s1, old_pid)
    IN  IF next = NEVER_PID
        THEN [s |-> [s1 EXCEPT !.halted = "shutdown"], ok |-> FALSE]
        ELSE LET p == s1.pt[next]
                 s2 == [s1 EXCEPT !.cpu.a0 = p.a0,
                                  !.cpu.sepc = p.pc,
                                  !.cpu.kmode = p.in_kernel_mode,
                                  !.cpu.satp = next,
                                  !.cur = next]
             IN  [s |-> mark_running(s2, next), ok |-> TRUE]

\* Scheduler::prepare_next_process; the result's field ok is its return value.
\* The chosen process is marked Running where its saved state is installed.
\* s1 is the state after queue_current_process_back, next the chosen pid.
prepare_next_process(s) ==
    LET old_pid == s.cur
        installed(s1, next) ==
            LET p == s1.pt[next]
                s2 == [s1 EXCEPT !.cpu.a0 = p.a0,
                                 !.cpu.sepc = p.pc,
                                 !.cpu.kmode = p.in_kernel_mode,
                                 !.cpu.satp = next,
                                 !.cur = next]
            IN  [s |-> mark_running(s2, next), ok |-> TRUE]
        queued_back(s1) ==
            IF is_empty(s1)
            THEN [s |-> [s1 EXCEPT !.halted = "shutdown"], ok |-> FALSE]
            ELSE Only({IF next = NEVER_PID
                       THEN [s |-> s1, ok |-> FALSE]
                       ELSE installed(s1, next) :
                           next \in {next_runnable(s1, old_pid)}})
    IN  Only({queued_back(s1) : s1 \in {queue_current_process_back(s)}})

\* schedule that arms the timer whether or not a process was installed
schedule_timer_always(s) ==
    LET r == prepare_next_process(s)
    IN  IF r.s.halted # "no" THEN r.s
        ELSE IF r.ok THEN set_timer(r.s)
        ELSE set_sscratch_to_kernel_trap_frame(
                 [set_timer(activate_page_table(r.s, KERNEL_PAGE_TABLES))
                     EXCEPT !.cpu.sepc = wfi_loop, !.cpu.kmode = TRUE])

\* Scheduler::schedule; r is the outcome of prepare_next_process
schedule(s) ==
    LET prepared(r) ==
            IF r.s.halted # "no" THEN r.s
            ELSE IF r.ok THEN set_timer(r.s)
            ELSE set_sscratch_to_kernel_trap_frame(
                     [disable_timer(activate_page_table(r.s, KERNEL_PAGE_TABLES))
                         EXCEPT !.cpu.sepc = wfi_loop, !.cpu.kmode = TRUE])
    IN  Only({prepared(r) : r \in {prepare_next_process(s)}})

----------------------------------------------------------------------------
(* Userspace pointers and the validator.  A reference argument is given by
   the flags that the current process's page table holds for the pages its
   (ptr, len) range covers. *)

PageFlags == [v : BOOLEAN, u : BOOLEAN, w : BOOLEAN]
RW_PAGE == [v |-> TRUE, u |-> TRUE, w |-> TRUE]
RO_PAGE == [v |-> TRUE, u |-> TRUE, w |-> FALSE]
UNMAPPED_PAGE == [v |-> FALSE, u |-> FALSE, w |-> FALSE]
KERNEL_PAGE == [v |-> TRUE, u |-> FALSE, w |-> TRUE]

\* PageTable::is_valid_userspace_ptr(ptr, writable)
is_valid_userspace_ptr(pages, writable) ==
    \A i \in 1..Len(pages) :
        pages[i].v /\ pages[i].u /\ (writable => pages[i].w)

\* PageTable::translate_userspace_address_to_physical_address
translate_userspace_address_to_physical_address(pages) ==
    \A i \in 1..Len(pages) : pages[i].v

\* SyscallHandler::validate_and_translate_pointer: TRUE for Some(physical address)
validate_and_translate_pointer(pages) ==
    IF ~is_valid_userspace_ptr(pages, TRUE) THEN FALSE
    ELSE translate_userspace_address_to_physical_address(pages)

\* UserspaceArgument<&T>::validate, for shared and for &mut references alike
validate(arg) == validate_and_translate_pointer(arg.pages)

----------------------------------------------------------------------------
(* StdinBuffer *)

register_wakeup(s, pid) ==
    [s EXCEPT !.stdin.wakeup_queue = s.stdin.wakeup_queue \cup {pid}]

\* Process::resume_on_syscall: the value goes to the saved a0, the process is Runnable
resume_on_syscall(s, pid, value) ==
    [s EXCEPT !.pt[pid].a0 = value, !.pt[pid].state = "Runnable"]

\* Process::set_waiting_on_syscall::<u8>
set_waiting_on_syscall(s, pid) == set_state(s, pid, "WaitingForInput")

\* Scheduler::is_current_process_energy_saver
is_current_process_energy_saver(s) == s.cur = NEVER_PID

\* the loop of StdinBuffer::push over the wakeup queue
wake_all(s, byte) ==
    [s EXCEPT !.pt = [p \in DOMAIN s.pt |->
        IF p \in s.stdin.wakeup_queue
        THEN [s.pt[p] EXCEPT !.a0 = byte, !.state = "Runnable"]
        ELSE s.pt[p]]]

\* push that resumes only the first registered process
push_first_only(s, byte) ==
    LET notified == s.stdin.wakeup_queue # {}
        first == IF notified THEN {Min(s.stdin.wakeup_queue)} ELSE {}
        s1 == [s EXCEPT !.pt = [p \in DOMAIN s.pt |->
                  IF p \in first
                  THEN [s.pt[p] EXCEPT !.a0 = byte, !.state = "Runnable"]
                  ELSE s.pt[p]]]
        s2 == IF notified /\ is_current_process_energy_saver(s1)
              THEN schedule(s1) ELSE s1
        s3 == [s2 EXCEPT !.stdin.wakeup_queue = {}]
    IN  IF notified
        THEN IF ~s3.cpu.timer THEN set_timer(s3) ELSE s3
        ELSE [s3 EXCEPT !.stdin.data = Append(s3.stdin.data, byte)]

\* push that leaves the resumed processes registered
push_keeps_registered(s, byte) ==
    LET notified == s.stdin.wakeup_queue # {}
        s1 == wake_all(s, byte)
        s2 == IF notified /\ is_current_process_energy_saver(s1)
              THEN schedule(s1) ELSE s1
    IN  IF notified
        THEN IF ~s2.cpu.timer THEN set_timer(s2) ELSE s2
        ELSE [s2 EXCEPT !.stdin.data = Append(s2.stdin.data, byte)]

\* StdinBuffer::push
push(s, byte) ==
    LET notified == s.stdin.wakeup_queue # {}
        s1 == wake_all(s, byte)
        s2 == IF notified /\ is_current_process_energy_saver(s1)
              THEN schedule(s1) ELSE s1
        s3 == [s2 EXCEPT !.stdin.wakeup_queue = {}]
    IN  IF notified
        THEN IF ~s3.cpu.timer THEN set_timer(s3) ELSE s3
        ELSE [s3 EXCEPT !.stdin.data = Append(s3.stdin.data, byte)]

----------------------------------------------------------------------------
(* Scheduler operations called by the syscall handler and the UART handler *)

\* kill_current_process that drops the process without ProcessTable::kill
kill_current_process_dropped(s) ==
    LET pid == s.cur
        s1 == swap_current_with_dummy(s)
        s2 == activate_page_table(s1, KERNEL_PAGE_TABLES)
    IN  [s2 EXCEPT !.pt = [p \in DOMAIN s2.pt \ {pid} |-> s2.pt[p]]]

\* kill_current_process that drops the process on the page table it ran on
kill_current_process_on_its_table(s) ==
    LET pid == s.cur
        s1 == swap_current_with_dummy(s)
    IN  kill(s1, pid)

\* Scheduler::kill_current_process
kill_current_process(s) ==
    LET pid == s.cur
        s1 == swap_current_with_dummy(s)
    IN  kill(activate_page_table(s1, KERNEL_PAGE_TABLES), pid)

\* Process::add_notify_on_die
add_notify_on_die(s, pid, waiter) ==
    [s EXCEPT !.pt[pid].notify_on_die = s.pt[pid].notify_on_die \cup {waiter}]

\* Scheduler::let_current_process_wait_for; the field ok is its return value.
\* The guard on the current process is still held when the target is locked:
\* when the target is the current process itself the second lock() is never
\* granted (the guard gives exclusive access) and the hart stays in the handler.
let_current_process_wait_for(s, pid) ==
    IF ~get_process(s, pid) THEN [s |-> s, ok |-> FALSE]
    ELSE LET s1 == set_state(s, s.cur, "Waiting")
             s2 == set_syscall_return_code(s1, s.cur, 0)
         IN  IF pid = s.cur
             THEN [s |-> [s2 EXCEPT !.halted = "deadlock"], ok |-> FALSE]
             ELSE [s |-> add_notify_on_die(s2, pid, s.cur), ok |-> TRUE]

\* start_program whose process takes the pid after the highest live one
start_program_after_highest(s, name) ==
    IF name \in PROGRAMS
    THEN LET pid == Max(DOMAIN s.pt \cup {NEVER_PID}) + 1
         IN  [s |-> [s EXCEPT !.pt = [p \in DOMAIN s.pt \cup {pid} |->
                                        IF p = pid THEN from_elf(s, name) ELSE s.pt[p]],
                              !.next_pid = pid + 1],
              pid |-> pid]
    ELSE [s |-> s, pid |-> NEVER_PID]

\* Scheduler::start_program; the field pid is NEVER_PID for None
start_program(s, name) ==
    IF name \in PROGRAMS
    THEN [s |-> add_process(s, from_elf(s, name)), pid |-> s.next_pid]
    ELSE [s |-> s, pid |-> NEVER_PID]

\* Scheduler::send_ctrl_c
send_ctrl_c(s) ==
    LET s1 == queue_current_process_back(s)
        highest_pid == get_highest_pid_without(s1, {"yash"})
        s2 == IF highest_pid # NEVER_PID
              THEN kill(activate_page_table(s1, KERNEL_PAGE_TABLES), highest_pid)
              ELSE s1
    IN  schedule(s2)

----------------------------------------------------------------------------
(* SyscallHandler.  Every sys_ operator yields [s, ret, exit, current_pid]: the
   state, the value for a0 and the handler's fields process_exit and
   current_pid, which SyscallHandler::new took from the scheduler. *)

Ret(s, ret) == [s |-> s, ret |-> ret, exit |-> FALSE, current_pid |-> s.cur]

sys_print_programs(s) == Ret(s, OK_UNIT)

sys_panic(s) == Ret([s EXCEPT !.halted = "panic"], OK_UNIT)

sys_write_char(s) == Ret(s, OK_UNIT)

\* sys_read_input whose pop takes the byte that arrived last
sys_read_input_newest(s) ==
    IF s.stdin.data = <<>> THEN Ret(s, NONE_BYTE)
    ELSE Ret([s EXCEPT !.stdin.data = SubSeq(s.stdin.data, 1, Len(s.stdin.data) - 1)],
             s.stdin.data[Len(s.stdin.data)])

\* StdinBuffer::pop through sys_read_input
sys_read_input(s) ==
    IF s.stdin.data = <<>> THEN Ret(s, NONE_BYTE)
    ELSE Ret([s EXCEPT !.stdin.data = Tail(s.stdin.data)], Head(s.stdin.data))

sys_read_input_wait(s) ==
    IF s.stdin.data # <<>>
    THEN Ret([s EXCEPT !.stdin.data = Tail(s.stdin.data)], Head(s.stdin.data))
    ELSE Ret(set_waiting_on_syscall(register_wakeup(s, s.cur), s.cur), 0)

sys_exit(s) ==
    [s |-> kill_current_process(s), ret |-> OK_UNIT, exit |-> TRUE,
     current_pid |-> NEVER_PID]

sys_execute(s, arg) ==
    IF ~validate(arg) THEN Ret(s, ERR_INVALID_PTR)
    ELSE LET r == start_program(s, arg.name)
         IN  IF r.pid # NEVER_PID THEN Ret(r.s, r.pid)
             ELSE Ret(s, ERR_INVALID_PROGRAM)

sys_wait(s, arg) ==
    LET r == let_current_process_wait_for(s, arg.pid)
    IN  IF r.ok THEN Ret(r.s, OK_UNIT) ELSE Ret(r.s, ERR_INVALID_PID)

sys_mmap_pages(s, arg) ==
    Ret([s EXCEPT !.pt[s.cur].mmap_pages = s.pt[s.cur].mmap_pages + arg.n],
        s.pt[s.cur].mmap_pages + 1)

----------------------------------------------------------------------------
(* Network: frames wait in the device until receive_and_process_packets *)

Ports == {7}
Ips == {9}
NO_IP == 0

new_socket == [from |-> NO_IP, received_port |-> 0, data |-> <<>>]

\* net::process_packet: an ARP frame teaches the cache the sender, a UDP
\* datagram goes to the socket bound to its destination port
process_packet(s, frame) ==
    IF frame.kind = "arp" THEN [s EXCEPT !.arp = s.arp \cup {frame.ip}]
    ELSE IF frame.port \in DOMAIN s.socks
    THEN [s EXCEPT !.socks[frame.port] =
             [from |-> frame.ip, received_port |-> frame.sport,
              data |-> Append(s.socks[frame.port].data, frame.byte)]]
    ELSE s

RECURSIVE process_packets(_, _)
process_packets(s, frames) ==
    IF frames = <<>> THEN s
    ELSE process_packets(process_packet(s, Head(frames)), Tail(frames))

\* net::receive_and_process_packets
receive_and_process_packets(s) == process_packets([s EXCEPT !.nic = <<>>], s.nic)

\* OpenSockets::try_get_socket and Process::put_new_udp_socket
sys_open_udp_socket(s, arg) ==
    IF arg.port \in DOMAIN s.socks THEN Ret(s, ERR_PORT_ALREADY_USED)
    ELSE Ret([s EXCEPT !.socks = [q \in DOMAIN s.socks \cup {arg.port} |->
                          IF q = arg.port THEN new_socket ELSE s.socks[q]],
                       !.pt[s.cur].udp_sockets = s.pt[s.cur].udp_sockets \cup {arg.port}],
             arg.port)

\* UserspaceArgument<UDPDescriptor>::validate
validate_descriptor(s, desc) == desc \in s.pt[s.cur].udp_sockets

sys_write_back_udp_socket(s, arg) ==
    IF ~validate(arg) THEN Ret(s, ERR_INVALID_PTR)
    ELSE IF ~validate_descriptor(s, arg.desc) THEN Ret(s, ERR_INVALID_DESCRIPTOR)
    ELSE LET socket == s.socks[arg.desc]
         IN  IF socket.from = NO_IP THEN Ret(s, ERR_NO_RECEIVE_IP_YET)
             ELSE IF socket.from \notin s.arp
             THEN Ret([s EXCEPT !.halted = "panic"], OK_UNIT)
             ELSE Ret(s, Len(arg.pages))

sys_read_udp_socket(s, arg) ==
    LET s1 == receive_and_process_packets(s)
    IN  IF ~validate(arg) THEN Ret(s1, ERR_INVALID_PTR)
        ELSE IF ~validate_descriptor(s1, arg.desc) THEN Ret(s1, ERR_INVALID_DESCRIPTOR)
        ELSE Ret([s1 EXCEPT !.socks[arg.desc].data = <<>>],
                 Len(s1.socks[arg.desc].data))

----------------------------------------------------------------------------
(* Dispatch and trap handling *)

SyscallNames ==
    {"print_programs", "panic", "write_char", "read_input", "read_input_wait",
     "exit", "execute", "wait", "mmap_pages", "open_udp_socket",
     "write_back_udp_socket", "read_udp_socket"}

\* KernelSyscalls::dispatch
dispatch(s, nr, arg) ==
    CASE nr = "print_programs" -> sys_print_programs(s)
      [] nr = "panic" -> sys_panic(s)
      [] nr = "write_char" -> sys_write_char(s)
      [] nr = "read_input" -> sys_read_input(s)
      [] nr = "read_input_wait" -> sys_read_input_wait(s)
      [] nr = "exit" -> sys_exit(s)
      [] nr = "execute" -> sys_execute(s, arg)
      [] nr = "wait" -> sys_wait(s, arg)
      [] nr = "mmap_pages" -> sys_mmap_pages(s, arg)
      [] nr = "open_udp_socket" -> sys_open_udp_socket(s, arg)
      [] nr = "write_back_udp_socket" -> sys_write_back_udp_socket(s, arg)
      [] nr = "read_udp_socket" -> sys_read_udp_socket(s, arg)
      [] OTHER -> Ret(s, ERR_INVALID_SYSCALL)

\* handle_syscall that answers Some(ret) whatever the handler's process_exit
handle_syscall_some(s, nr, arg) ==
    LET r == dispatch(s, nr, arg)
    IN  [s |-> r.s, ret |-> r.ret, some |-> TRUE, current_pid |-> r.current_pid]

\* handle_syscall: [s, ret, some, current_pid]; some = FALSE stands for None,
\* current_pid is the handler's field when dispatch has returned
handle_syscall(s, nr, arg) ==
    LET r == dispatch(s, nr, arg)
    IN  [s |-> r.s, ret |-> r.ret, some |-> ~r.exit, current_pid |-> r.current_pid]

\* the return value goes to a0 of the trap frame
write_syscall_result(s, r) == IF r.some THEN [s EXCEPT !.cpu.a0 = r.ret] ELSE s

\* a hart whose current process stopped running yields to the scheduler
reschedule_if_not_running(s) ==
    IF s.halted # "no" THEN s
    ELSE IF s.cur = NEVER_PID \/ s.pt[s.cur].state # "Running" THEN schedule(s)
    ELSE s

\* handle_exception that leaves sepc at the ecall
handle_exception_at_ecall(s, nr, arg) ==
    LET r == handle_syscall(s, nr, arg)
        s1 == write_syscall_result(r.s, r)
    IN  IF r.s.halted # "no" THEN r.s ELSE reschedule_if_not_running(s1)

\* handle_exception that skips the ecall after the scheduler has run
handle_exception_advance_last(s, nr, arg) ==
    LET sepc == s.cpu.sepc
        r == handle_syscall(s, nr, arg)
        s1 == write_syscall_result(r.s, r)
        s2 == reschedule_if_not_running(s1)
    IN  IF r.s.halted # "no" THEN r.s ELSE [s2 EXCEPT !.cpu.sepc = sepc + 4]

\* handle_exception, ENVIRONMENT_CALL_FROM_U_MODE
handle_exception(s, nr, arg) ==
    LET sepc == s.cpu.sepc
        r == handle_syscall(s, nr, arg)
        s1 == write_syscall_result(r.s, r)
        s2 == [s1 EXCEPT !.cpu.sepc = sepc + 4]
    IN  IF r.s.halted # "no" THEN r.s ELSE reschedule_if_not_running(s2)

\* handle_external_interrupt with a byte from the UART
handle_external_interrupt(s, byte) == push(s, byte)

\* handle_supervisor_timer_interrupt
handle_supervisor_timer_interrupt(s) == schedule(set_timer(s))

----------------------------------------------------------------------------
(* The kernel heap: a free list of blocks inside pages that are never given
   back.  A block is known by the address of its header; h.blocks maps it to
   the header's fields next and size, h.genesis_next is genesis_block.next,
   h.pages counts the pages taken from the page allocator. *)

\* the null pointer, and None in a Link
NULL == 0
PAGE_SIZE == 4096
\* address of the first page the page allocator hands out
HEAP_START == 4096
\* offset_of!(FreeBlock, data): next and size, 8 bytes each
METADATA_SIZE == 16
DATA_ALIGNMENT == 8
MINIMUM_SIZE == METADATA_SIZE + DATA_ALIGNMENT

\* layout sizes asked for
HeapSizes == {1, 9, 32, 4072, 4080, 2 * PAGE_SIZE - METADATA_SIZE}

align_up(value, alignment) == ((value + alignment - 1) \div alignment) * alignment

minimum_amount_of_pages(value) == (value + PAGE_SIZE - 1) \div PAGE_SIZE

\* AlignedSizeWithMetadata::from_layout that adds the metadata and does not
\* align
from_layout_unaligned(size) == size + METADATA_SIZE

\* AlignedSizeWithMetadata, as its total size
from_layout(size) == align_up(size + METADATA_SIZE, DATA_ALIGNMENT)

from_pages(pages) == pages * PAGE_SIZE

data_size(total_size) == total_size - METADATA_SIZE

\* a failed assert!
heap_panic(h) == [h EXCEPT !.panicked = TRUE]

\* FreeBlock::initialize: the header at block_ptr gets next = None and size
initialize(h, block_ptr, size) ==
    IF \/ size < MINIMUM_SIZE
       \/ data_size(size) < DATA_ALIGNMENT
       \/ data_size(size) % DATA_ALIGNMENT # 0
    THEN heap_panic(h)
    ELSE [h EXCEPT !.blocks = [a \in DOMAIN h.blocks \cup {block_ptr} |->
                                  IF a = block_ptr
                                  THEN [next |-> NULL, size |-> size]
                                  ELSE h.blocks[a]]]

from_data_ptr(ptr) == ptr - METADATA_SIZE

get_data_ptr(block) == block + METADATA_SIZE

\* insert that merges the block with the head of the list when the head
\* starts where the block ends
insert_coalescing(h, block) ==
    LET head == h.genesis_next
    IN  IF h.blocks[block].next # NULL THEN heap_panic(h)
        ELSE IF head # NULL /\ block + h.blocks[block].size = head
        THEN [h EXCEPT !.blocks[block].size = @ + h.blocks[head].size,
                       !.blocks[block].next = h.blocks[head].next,
                       !.genesis_next = block]
        ELSE [h EXCEPT !.blocks[block].next = h.genesis_next,
                       !.genesis_next = block]

\* Heap::insert: the block becomes the head of the free list
insert(h, block) ==
    IF h.blocks[block].next # NULL THEN heap_panic(h)
    ELSE [h EXCEPT !.blocks[block].next = h.genesis_next,
                   !.genesis_next = block]

\* FreeBlock::split that leaves the size of the split block as it was
split_keeps_size(h, block, requested_size) ==
    LET size == h.blocks[block].size
        remaining_size == size - requested_size
        new_block == get_data_ptr(block) + data_size(requested_size)
    IN  IF \/ size < requested_size + MINIMUM_SIZE
           \/ data_size(requested_size) % DATA_ALIGNMENT # 0
           \/ data_size(remaining_size) % DATA_ALIGNMENT # 0
        THEN [h |-> heap_panic(h), new_block |-> NULL]
        ELSE [h |-> initialize(h, new_block, remaining_size),
              new_block |-> new_block]

\* FreeBlock::split: block keeps requested_size, the rest is a new block;
\* result [h, new_block]
split(h, block, requested_size) ==
    LET size == h.blocks[block].size
        remaining_size == size - requested_size
        new_block == get_data_ptr(block) + data_size(requested_size)
    IN  IF \/ size < requested_size + MINIMUM_SIZE
           \/ data_size(requested_size) % DATA_ALIGNMENT # 0
           \/ data_size(remaining_size) % DATA_ALIGNMENT # 0
        THEN [h |-> heap_panic(h), new_block |-> NULL]
        ELSE [h |-> initialize([h EXCEPT !.blocks[block].size = requested_size],
                               new_block, remaining_size),
              new_block |-> new_block]

\* split_if_necessary that splits only when more than MINIMUM_SIZE is left
split_if_necessary_strict(h, block, requested_size) ==
    LET current_block_size == h.blocks[block].size
    IN  IF current_block_size < requested_size THEN heap_panic(h)
        ELSE IF current_block_size - requested_size <= MINIMUM_SIZE THEN h
        ELSE LET r == split(h, block, requested_size)
             IN  IF r.h.panicked THEN r.h ELSE insert(r.h, r.new_block)

\* Heap::split_if_necessary
split_if_necessary(h, block, requested_size) ==
    LET current_block_size == h.blocks[block].size
    IN  IF current_block_size < requested_size THEN heap_panic(h)
        ELSE IF current_block_size - requested_size < MINIMUM_SIZE THEN h
        ELSE LET r == split(h, block, requested_size)
             IN  IF r.h.panicked THEN r.h ELSE insert(r.h, r.new_block)

\* the next field of previous_block; NULL stands for the genesis block
next_of(h, previous_block) ==
    IF previous_block = NULL THEN h.genesis_next ELSE h.blocks[previous_block].next

\* find_and_remove that looks at the head of the free list only
find_from_head_only(h, previous_block, requested_size) ==
    LET block == next_of(h, previous_block)
    IN  IF block # NULL /\ h.blocks[block].size >= requested_size
        THEN [block |-> block, previous_block |-> previous_block]
        ELSE [block |-> NULL, previous_block |-> NULL]

\* find_and_remove that passes over a block of exactly the requested size
RECURSIVE find_from_larger(_, _, _)
find_from_larger(h, previous_block, requested_size) ==
    LET block == next_of(h, previous_block)
    IN  IF block = NULL THEN [block |-> NULL, previous_block |-> NULL]
        ELSE IF h.blocks[block].size > requested_size
        THEN [block |-> block, previous_block |-> previous_block]
        ELSE find_from_larger(h, block, requested_size)

\* the loop of Heap::find_and_remove from previous_block on: the first block
\* that is large enough and its predecessor, or NULL
RECURSIVE find_from(_, _, _)
find_from(h, previous_block, requested_size) ==
    LET block == next_of(h, previous_block)
    IN  IF block = NULL THEN [block |-> NULL, previous_block |-> NULL]
        ELSE IF h.blocks[block].size >= requested_size
        THEN [block |-> block, previous_block |-> previous_block]
        ELSE find_from(h, block, requested_size)

\* find_and_remove that unlinks the block found and leaves its next as it was
find_and_remove_keeps_next(h, requested_size) ==
    LET f == find_from(h, NULL, requested_size)
        after == h.blocks[f.block].next
        unlinked == IF f.previous_block = NULL
                    THEN [h EXCEPT !.genesis_next = after]
                    ELSE [h EXCEPT !.blocks[f.previous_block].next = after]
    IN  IF f.block = NULL THEN [h |-> h, block |-> NULL]
        ELSE [h |-> unlinked, block |-> f.block]

\* Heap::find_and_remove: result [h, block]; the block found is unlinked and
\* its next taken
find_and_remove(h, requested_size) ==
    LET f == find_from(h, NULL, requested_size)
        after == h.blocks[f.block].next
        unlinked == IF f.previous_block = NULL
                    THEN [h EXCEPT !.genesis_next = after]
                    ELSE [h EXCEPT !.blocks[f.previous_block].next = after]
    IN  IF f.block = NULL THEN [h |-> h, block |-> NULL]
        ELSE [h |-> [unlinked EXCEPT !.blocks[f.block].next = NULL],
              block |-> f.block]

\* AllocatedPages::zalloc: result [h, addr]; the pages follow those taken
\* before, NULL when the page allocator has not that many left
zalloc(h, pages) ==
    IF h.pages + pages > MaxHeapPages THEN [h |-> h, addr |-> NULL]
    ELSE [h |-> [h EXCEPT !.pages = h.pages + pages],
          addr |-> HEAP_START + h.pages * PAGE_SIZE]

\* Heap::alloc: result [h, ptr]
alloc(h, size) ==
    LET requested_size == from_layout(size)
        found == find_and_remove(h, requested_size)
        pages == minimum_amount_of_pages(requested_size)
        allocation == zalloc(h, pages)
        fresh == initialize(allocation.h, allocation.addr, from_pages(pages))
        block == IF found.block # NULL THEN found.block ELSE allocation.addr
        h1 == IF found.block # NULL THEN found.h ELSE fresh
        h2 == split_if_necessary(h1, block, requested_size)
    IN  IF found.block = NULL /\ allocation.addr = NULL THEN [h |-> h, ptr |-> NULL]
        ELSE IF h1.panicked THEN [h |-> h1, ptr |-> NULL]
        ELSE [h |-> h2, ptr |-> get_data_ptr(block)]

\* Heap::dealloc
dealloc(h, ptr, size) ==
    LET free_block == from_data_ptr(ptr)
    IN  IF \/ h.blocks[free_block].next # NULL
           \/ data_size(h.blocks[free_block].size) < size
        THEN heap_panic(h)
        ELSE insert(h, free_block)

\* Heap::new, with the allocations handed out (ptr and layout size) and the
\* call made last
EmptyHeap ==
    [genesis_next |-> NULL, blocks |-> <<>>, pages |-> 0, panicked |-> FALSE,
     live |-> {}, ops |-> 0, last |-> [op |-> "new", size |-> 0, ptr |-> NULL, skipped |-> 0],
     cycle |-> [size |-> 0, ptr |-> NULL, count |-> 0, len |-> 0, pages |-> 0]]

----------------------------------------------------------------------------
(* Initial state: kernel_init has run, prepare_for_scheduling armed the timer
   and the hart sits in wfi_loop with the dummy as current process. *)

\* a hart that start_other_harts has started: prepare_for_scheduling has armed
\* its timer and it sits in wfi_loop with the dummy as its current process
IdleHart ==
    [cur |-> NEVER_PID,
     cpu |-> [sepc |-> wfi_loop, a0 |-> 0, kmode |-> TRUE,
              satp |-> KERNEL_PAGE_TABLES, timer |-> TRUE,
              sscratch |-> KernelTrapFrame],
     at |-> "run"]

InitKernel ==
    /\ process_table = [p \in {1} |-> from_elf(0, INIT)]
    /\ dummy_process = [pc |-> 0, in_kernel_mode |-> FALSE, a0 |-> 0]
    /\ current_process = NEVER_PID
    /\ next_pid = 2
    /\ cpu = [sepc |-> wfi_loop, a0 |-> 0, kmode |-> TRUE,
              satp |-> KERNEL_PAGE_TABLES, timer |-> TRUE,
              sscratch |-> KernelTrapFrame]
    /\ stdin_buffer = [data |-> <<>>, wakeup_queue |-> {}]
    /\ open_udp_sockets = <<>>
    /\ arp_cache = {}
    /\ nic = <<>>
    /\ halted = "no"
    /\ heap = EmptyHeap
    /\ hart1 = IdleHart

NoArg == [name |-> "nope", pages |-> <<>>, pid |-> NEVER_PID, port |-> 0,
          desc |-> 0, n |-> 0, mutable |-> FALSE]

Booted == [op |-> "boot", caller |-> NEVER_PID, arg |-> NoArg, woken |-> {},
           returned |-> "-", handler_pid |-> NEVER_PID, dropped |-> {},
           ecall_pc |-> "-"]

NoStdinLog == [on |-> FALSE, enq |-> <<>>, deq |-> <<>>]

Init ==
    /\ InitKernel
    /\ sched_log = [on |-> FALSE, picks |-> <<>>]
    /\ stdin_log = NoStdinLog
    /\ last_trap = Booted

InitRR ==
    /\ InitKernel
    /\ sched_log = [on |-> TRUE, picks |-> <<>>]
    /\ stdin_log = NoStdinLog
    /\ last_trap = Booted

InitFifo ==
    /\ InitKernel
    /\ sched_log = [on |-> FALSE, picks |-> <<>>]
    /\ stdin_log = [NoStdinLog EXCEPT !.on = TRUE]
    /\ last_trap = Booted

----------------------------------------------------------------------------
(* History of schedule() calls over an unchanged set of schedulable processes *)

Schedulable(pt) == {p \in DOMAIN pt : pt[p].state \in {"Runnable", "Running"}}

Window(seq, n) ==
    IF Len(seq) <= n THEN seq ELSE SubSeq(seq, Len(seq) - n + 1, Len(seq))

LogUpdate(called) ==
    sched_log' =
        IF ~sched_log.on THEN sched_log
        ELSE IF \/ DOMAIN process_table' # DOMAIN process_table
                \/ Schedulable(process_table') # Schedulable(process_table)
        THEN [sched_log EXCEPT !.picks = <<>>]
        ELSE IF called
        THEN [sched_log EXCEPT !.picks =
                 Window(Append(sched_log.picks, current_process'),
                        Cardinality(Schedulable(process_table)))]
        ELSE sched_log

\* the byte a pop has just handed to the caller of nr, if any: sys_read_input
\* returned Some(byte), or sys_read_input_wait returned without blocking
Popped(nr) ==
    IF nr = "read_input" /\ cpu'.a0 # NONE_BYTE THEN <<cpu'.a0>>
    ELSE IF /\ nr = "read_input_wait"
            /\ current_process' = current_process
            /\ process_table'[current_process].state = "Running"
    THEN <<cpu'.a0>>
    ELSE <<>>

\* the byte a push has just put into the buffer, if any
Enqueued(byte) ==
    IF Len(stdin_buffer'.data) > Len(stdin_buffer.data) THEN <<byte>> ELSE <<>>

StdinLog(enq, deq) ==
    stdin_log' =
        IF ~stdin_log.on THEN stdin_log
        ELSE [stdin_log EXCEPT !.enq = stdin_log.enq \o enq,
                               !.deq = stdin_log.deq \o deq]

\* the processes a kill of pid wakes: those in its notify_on_die still alive
LiveWaiters(pt, pid) ==
    IF pid \in DOMAIN pt THEN (pt[pid].notify_on_die \cap DOMAIN pt) \ {pid} ELSE {}

LastTrap(op, arg, woken, dropped) ==
    last_trap' = [op |-> op, caller |-> current_process, arg |-> arg, woken |-> woken,
                  returned |-> "-", handler_pid |-> NEVER_PID, dropped |-> dropped,
                  ecall_pc |-> "-"]

\* a syscall: also what handle_syscall returned and the handler's current_pid
LastSyscall(nr, arg, woken, r, pc) ==
    last_trap' = [op |-> nr, caller |-> current_process, arg |-> arg, woken |-> woken,
                  returned |-> IF r.some THEN "some" ELSE "none",
                  handler_pid |-> r.current_pid, dropped |-> r.s.dropped,
                  ecall_pc |-> pc]

----------------------------------------------------------------------------
(* Actions: one per trap *)

InUserMode == halted = "no" /\ current_process # NEVER_PID

PtrArgs == {<<RW_PAGE>>, <<RO_PAGE>>, <<RW_PAGE, UNMAPPED_PAGE>>, <<KERNEL_PAGE>>}

\* the running process has reached the ecall at pc and traps there
trap_at(s, pc) == [s EXCEPT !.cpu.sepc = pc]

SyscallAt(pcs, nr, arg) ==
    /\ InUserMode
    /\ \E pc \in pcs : \E s0 \in {trap_at(St, pc)} :
        /\ \E s \in {handle_exception(s0, nr, arg)} : Install(s)
        /\ \E r \in {handle_syscall(s0, nr, arg)} :
               LastSyscall(nr, arg,
                           IF nr = "exit"
                           THEN LiveWaiters(process_table, current_process) ELSE {},
                           r, pc)
    /\ LogUpdate(FALSE)
    /\ StdinLog(<<>>, Popped(nr))
    /\ UNCHANGED <<heap, hart1>>

Syscall(nr, arg) == SyscallAt(UserPcs, nr, arg)

TimerInterrupt ==
    /\ halted = "no"
    /\ cpu.timer
    /\ \E s0 \in {St} : \E s \in {handle_supervisor_timer_interrupt(s0)} :
           Install(s) /\ LastTrap("timer", NoArg, {}, s.dropped)
    /\ LogUpdate(TRUE)
    /\ StdinLog(<<>>, <<>>)
    /\ UNCHANGED <<heap, hart1>>

UartInterrupt ==
    /\ halted = "no"
    /\ \E byte \in Bytes :
        /\ stdin_buffer.wakeup_queue = {} =>
               IF stdin_log.on
               THEN Len(stdin_buffer.data) < MaxFifo /\ Len(stdin_log.enq) < MaxLog
               ELSE Len(stdin_buffer.data) < MaxStdin
        /\ \E s \in {handle_external_interrupt(St, byte)} :
            /\ Install(s)
            /\ LastTrap("uart", [NoArg EXCEPT !.n = byte],
                        stdin_buffer.wakeup_queue \cap DOMAIN process_table,
                        s.dropped)
        /\ StdinLog(Enqueued(byte), <<>>)
    /\ LogUpdate(stdin_buffer.wakeup_queue # {} /\ current_process = NEVER_PID)
    /\ UNCHANGED <<heap, hart1>>

CtrlC ==
    /\ halted = "no"
    /\ \E s \in {send_ctrl_c(St)} :
        /\ Install(s)
        /\ LET pid == get_highest_pid_without(St, {"yash"})
           IN  LastTrap("ctrl_c", [NoArg EXCEPT !.pid = pid],
                        LiveWaiters(process_table, pid), s.dropped)
    /\ LogUpdate(TRUE)
    /\ StdinLog(<<>>, <<>>)
    /\ UNCHANGED <<heap, hart1>>

----------------------------------------------------------------------------
(* A second hart.  The process table, the dummy and the stdin buffer are
   shared; the hart has its own current process, registers and timer.  Its
   sys_read_input_wait takes one step per critical section, so that the traps
   of the first hart come in between. *)

\* the kernel state as the second hart sees it
St1 == [St EXCEPT !.cur = hart1.cur, !.cpu = hart1.cpu]

Install1(s, at) ==
    /\ process_table' = s.pt
    /\ dummy_process' = s.dummy
    /\ next_pid' = s.next_pid
    /\ stdin_buffer' = s.stdin
    /\ open_udp_sockets' = s.socks
    /\ arp_cache' = s.arp
    /\ nic' = s.nic
    /\ halted' = s.halted
    /\ hart1' = [cur |-> s.cur, cpu |-> s.cpu, at |-> at]
    /\ UNCHANGED <<current_process, cpu, sched_log, stdin_log, heap>>

Hart1Ops ==
    {"hart1_timer", "hart1_pop", "hart1_register", "hart1_set_waiting", "hart1_return"}

Hart1Trap(op) ==
    last_trap' = [op |-> op, caller |-> hart1.cur, arg |-> NoArg, woken |-> {},
                  returned |-> "-", handler_pid |-> NEVER_PID, dropped |-> {},
                  ecall_pc |-> "-"]

\* the second hart runs user code of a process of the table
Hart1InUserMode ==
    /\ halted = "no"
    /\ hart1.at = "run"
    /\ hart1.cur \in DOMAIN process_table

Hart1TimerInterrupt ==
    /\ halted = "no"
    /\ hart1.at = "run"
    /\ hart1.cpu.timer
    /\ \E s \in {handle_supervisor_timer_interrupt(St1)} : Install1(s, "run")
    /\ Hart1Trap("hart1_timer")

\* sys_read_input_wait, first critical section: STDIN_BUFFER.lock().pop(); with
\* a byte the call is complete
Hart1Pop ==
    /\ Hart1InUserMode
    /\ \E pc \in UserPcs : \E s0 \in {trap_at(St1, pc)} :
        IF s0.stdin.data # <<>>
        THEN \E s \in {handle_exception(s0, "read_input_wait", NoArg)} : Install1(s, "run")
        ELSE Install1(s0, "popped")
    /\ Hart1Trap("hart1_pop")

\* second critical section: STDIN_BUFFER.lock().register_wakeup(current_pid)
Hart1RegisterWakeup ==
    /\ halted = "no"
    /\ hart1.at = "popped"
    /\ Install1(register_wakeup(St1, hart1.cur), "registered")
    /\ Hart1Trap("hart1_register")

\* third critical section: current_process.lock().set_waiting_on_syscall();
\* the handler holds its own reference to the process, in the table or not
Hart1SetWaiting ==
    /\ halted = "no"
    /\ hart1.at = "registered"
    /\ Install1(IF hart1.cur \in DOMAIN process_table
                THEN set_waiting_on_syscall(St1, hart1.cur) ELSE St1, "blocked")
    /\ Hart1Trap("hart1_set_waiting")

\* the call returns 0: the value goes to a0, sepc skips the ecall, and the
\* hart yields to its scheduler if its current process is not Running
finish_read_input_wait(s) ==
    LET s1 == [s EXCEPT !.cpu.a0 = 0, !.cpu.sepc = s.cpu.sepc + 4]
    IN  IF s.cur \in DOMAIN s.pt THEN reschedule_if_not_running(s1) ELSE schedule(s1)

Hart1Return ==
    /\ halted = "no"
    /\ hart1.at = "blocked"
    /\ \E s \in {finish_read_input_wait(St1)} : Install1(s, "run")
    /\ Hart1Trap("hart1_return")

----------------------------------------------------------------------------
SysOther == \E nr \in {"print_programs", "write_char"} : Syscall(nr, NoArg)

SysUnknown == Syscall("no_such_syscall", NoArg)

SysPanic == Syscall("panic", NoArg)

SysReadInput == Syscall("read_input", NoArg)

SysReadInputWait == Syscall("read_input_wait", NoArg)

SysExit == Syscall("exit", NoArg)

SysExecute ==
    /\ next_pid <= MaxPid
    /\ \E name \in PROGRAMS :
        Syscall("execute", [NoArg EXCEPT !.name = name, !.pages = <<RW_PAGE>>])

SysExecuteOnce ==
    /\ next_pid <= 2
    /\ Syscall("execute", [NoArg EXCEPT !.name = "yash", !.pages = <<RW_PAGE>>])

SysExecuteYash ==
    /\ next_pid <= MaxWakePid
    /\ Syscall("execute", [NoArg EXCEPT !.name = "yash", !.pages = <<RW_PAGE>>])

SysExecutePtr ==
    /\ next_pid <= MaxNetPid
    /\ \E name \in ProgramNames, pages \in PtrArgs :
        Syscall("execute", [NoArg EXCEPT !.name = name, !.pages = pages])

SysWait == \E pid \in 1..(MaxPid + 1) :
    Syscall("wait", [NoArg EXCEPT !.pid = pid])

SysOpenUdpSocket == \E port \in Ports :
    Syscall("open_udp_socket", [NoArg EXCEPT !.port = port])

SysWriteBackUdpSocket == \E desc \in Ports, pages \in PtrArgs :
    Syscall("write_back_udp_socket", [NoArg EXCEPT !.desc = desc, !.pages = pages])

SysReadUdpSocket == \E desc \in Ports, pages \in PtrArgs :
    Syscall("read_udp_socket",
            [NoArg EXCEPT !.desc = desc, !.pages = pages, !.mutable = TRUE])

\* GlobalAlloc::alloc with a layout of some size
\* the blocks of the free list of h in front of the block behind ptr: those
\* find_and_remove passed over (0 when the block is not on the list)
Skipped(h, ptr) ==
    LET RECURSIVE pos(_, _, _)
        pos(block, fuel, n) ==
            IF block = NULL \/ fuel = 0 THEN 0
            ELSE IF block = from_data_ptr(ptr) THEN n
            ELSE pos(h.blocks[block].next, fuel - 1, n + 1)
    IN  IF ptr = NULL THEN 0
        ELSE pos(h.genesis_next, Cardinality(DOMAIN h.blocks), 0)

HeapAlloc ==
    /\ ~heap.panicked
    /\ heap.ops < MaxHeapOps
    /\ \E size \in HeapSizes : \E r \in {alloc(heap, size)} :
        heap' = [r.h EXCEPT
                    !.live = IF r.ptr = NULL THEN @
                             ELSE @ \cup {[ptr |-> r.ptr, size |-> size]},
                    !.ops = @ + 1,
                    !.last = [op |-> "alloc", size |-> size, ptr |-> r.ptr,
                              skipped |-> Skipped(heap, r.ptr)]]
    /\ UNCHANGED <<process_table, dummy_process, current_process, next_pid, cpu,
                   stdin_buffer, open_udp_sockets, arp_cache, nic, halted,
                   sched_log, stdin_log, last_trap, hart1>>

\* GlobalAlloc::dealloc of an allocation handed out before, with its layout
HeapDealloc ==
    /\ ~heap.panicked
    /\ heap.ops < MaxHeapOps
    /\ \E a \in heap.live : \E h \in {dealloc(heap, a.ptr, a.size)} :
        heap' = [h EXCEPT
                    !.live = @ \ {a},
                    !.ops = @ + 1,
                    !.last = [op |-> "dealloc", size |-> a.size, ptr |-> a.ptr,
                              skipped |-> 0]]
    /\ UNCHANGED <<process_table, dummy_process, current_process, next_pid, cpu,
                   stdin_buffer, open_udp_sockets, arp_cache, nic, halted,
                   sched_log, stdin_log, last_trap, hart1>>

\* the length of the free list
FreeLen(h) ==
    LET RECURSIVE len(_, _)
        len(block, fuel) ==
            IF block = NULL \/ fuel = 0 THEN 0
            ELSE 1 + len(h.blocks[block].next, fuel - 1)
    IN  len(h.genesis_next, Cardinality(DOMAIN h.blocks))

\* history of the cycles ptr = alloc(L); dealloc(ptr, L) with one layout:
\* cycle.size is L (0: no cycle yet), cycle.ptr the pointer between the two
\* calls, cycle.count the cycles completed, cycle.len and cycle.pages the
\* length of the free list and the pages taken when the last one completed
CycleDone(h) ==
    [h EXCEPT !.cycle.ptr = NULL,
              !.cycle.count = @ + 1,
              !.cycle.len = FreeLen(h),
              !.cycle.pages = h.pages]

\* the alloc of a cycle; a null pointer ends the cycle, there is nothing to
\* give back
HeapCycleAlloc ==
    /\ ~heap.panicked
    /\ heap.cycle.ptr = NULL
    /\ heap.cycle.count < MaxCycles
    /\ \E size \in HeapSizes : \E r \in {alloc(heap, size)} :
        /\ heap.cycle.size \in {0, size}
        /\ \E h \in {[r.h EXCEPT
                          !.live = IF r.ptr = NULL THEN @
                                   ELSE @ \cup {[ptr |-> r.ptr, size |-> size]},
                          !.last = [op |-> "alloc", size |-> size, ptr |-> r.ptr,
                              skipped |-> Skipped(heap, r.ptr)],
                          !.cycle.size = size,
                          !.cycle.ptr = r.ptr]} :
               heap' = IF r.ptr = NULL THEN CycleDone(h) ELSE h
    /\ UNCHANGED <<process_table, dummy_process, current_process, next_pid, cpu,
                   stdin_buffer, open_udp_sockets, arp_cache, nic, halted,
                   sched_log, stdin_log, last_trap, hart1>>

\* the dealloc of a cycle
HeapCycleDealloc ==
    /\ ~heap.panicked
    /\ heap.cycle.ptr # NULL
    /\ \E h \in {dealloc(heap, heap.cycle.ptr, heap.cycle.size)} :
        heap' = CycleDone([h EXCEPT
                    !.live = @ \ {[ptr |-> heap.cycle.ptr, size |-> heap.cycle.size]},
                    !.last = [op |-> "dealloc", size |-> heap.cycle.size,
                              ptr |-> heap.cycle.ptr, skipped |-> 0]])
    /\ UNCHANGED <<process_table, dummy_process, current_process, next_pid, cpu,
                   stdin_buffer, open_udp_sockets, arp_cache, nic, halted,
                   sched_log, stdin_log, last_trap, hart1>>

\* any calls first, as long as no cycle has begun
HeapPrefixAlloc == heap.cycle.size = 0 /\ heap.ops < MaxCyclePrefix /\ HeapAlloc

HeapPrefixDealloc == heap.cycle.size = 0 /\ heap.ops < MaxCyclePrefix /\ HeapDealloc

Frames ==
    [kind : {"arp"}, ip : Ips, port : {0}, sport : {0}, byte : {0}]
    \cup [kind : {"udp"}, ip : Ips, port : Ports, sport : {5}, byte : Bytes]

Pending(port) ==
    Cardinality({i \in 1..Len(nic) : nic[i].kind = "udp" /\ nic[i].port = port})

\* a frame arrives at the network device
NetReceive ==
    /\ halted = "no"
    /\ Len(nic) < MaxNic
    /\ \E f \in Frames :
        /\ (f.kind = "udp" /\ f.port \in DOMAIN open_udp_sockets) =>
               Len(open_udp_sockets[f.port].data) + Pending(f.port) < MaxSockData
        /\ nic' = Append(nic, f)
    /\ LastTrap("net_receive", NoArg, {}, {})
    /\ UNCHANGED <<process_table, dummy_process, current_process, next_pid, cpu,
                   stdin_buffer, open_udp_sockets, arp_cache, halted, sched_log,
                   stdin_log, heap, hart1>>

Next ==
    \/ TimerInterrupt
    \/ UartInterrupt
    \/ CtrlC
    \/ SysPanic
    \/ SysReadInput
    \/ SysReadInputWait
    \/ SysExit
    \/ SysExecute
    \/ SysWait

NextNet ==
    \/ TimerInterrupt
    \/ SysOther
    \/ SysUnknown
    \/ SysExecutePtr
    \/ SysWait
    \/ SysOpenUdpSocket
    \/ SysWriteBackUdpSocket
    \/ SysReadUdpSocket
    \/ NetReceive

\* the life of processes: creation, scheduling, waiting, exit and kill
NextProc ==
    \/ TimerInterrupt
    \/ CtrlC
    \/ SysExit
    \/ SysExecute
    \/ SysWait

\* the input path: processes that block for input, bytes from the UART
NextStdin ==
    \/ TimerInterrupt
    \/ UartInterrupt
    \/ CtrlC
    \/ SysReadInputWait
    \/ SysExecute

\* the buffer alone: bytes arrive, two processes consume them
NextFifo ==
    \/ TimerInterrupt
    \/ UartInterrupt
    \/ SysReadInput
    \/ SysReadInputWait
    \/ SysExecuteOnce

\* init and the shells it starts, blocking for input
NextWake ==
    \/ TimerInterrupt
    \/ UartInterrupt
    \/ CtrlC
    \/ SysReadInputWait
    \/ SysExecuteYash

EcallExit == SyscallAt(EcallPcs, "exit", NoArg)

EcallExecute ==
    /\ next_pid <= MaxPid
    /\ \E name \in PROGRAMS :
        SyscallAt(EcallPcs, "execute", [NoArg EXCEPT !.name = name, !.pages = <<RW_PAGE>>])

EcallWait == \E pid \in 1..(MaxPid + 1) :
    SyscallAt(EcallPcs, "wait", [NoArg EXCEPT !.pid = pid])

\* system calls issued at two different addresses
NextPc ==
    \/ TimerInterrupt
    \/ EcallExit
    \/ EcallExecute
    \/ EcallWait

\* two harts: the first takes the interrupts of the UART and the timer and
\* starts a shell, the second schedules and runs processes that read input
NextSmp ==
    \/ TimerInterrupt
    \/ UartInterrupt
    \/ CtrlC
    \/ SysExecuteOnce
    \/ Hart1TimerInterrupt
    \/ Hart1Pop
    \/ Hart1RegisterWakeup
    \/ Hart1SetWaiting
    \/ Hart1Return

\* the heap alone: allocations and deallocations in any order
NextHeap ==
    \/ HeapAlloc
    \/ HeapDealloc

\* some calls, then cycles of alloc and dealloc with one layout
NextCycle ==
    \/ HeapPrefixAlloc
    \/ HeapPrefixDealloc
    \/ HeapCycleAlloc
    \/ HeapCycleDealloc

Spec == Init /\ [][Next]_vars

SpecCycle == Init /\ [][NextCycle]_vars

SpecHeap == Init /\ [][NextHeap]_vars

SpecProc == Init /\ [][NextProc]_vars

SpecPc == Init /\ [][NextPc]_vars

SpecSmp == Init /\ [][NextSmp]_vars

SpecRR == InitRR /\ [][NextProc]_vars

SpecStdin == Init /\ [][NextStdin]_vars

SpecNet == Init /\ [][NextNet]_vars

SpecFifo == InitFifo /\ [][NextFifo]_vars

\* shells that block for input, with a timer that fires whenever it is armed
SpecWake == Init /\ [][NextWake]_vars /\ WF_vars(TimerInterrupt)

----------------------------------------------------------------------------
(* Vocabulary of the properties *)

\* the value process p finds in a0 when it next runs in user mode
ReturnValue(pt, cur, c, p) == IF cur = p THEN c.a0 ELSE pt[p].a0

\* the state a process just made ready is in: Running if the same trap
\* installed it, Runnable otherwise
ReadyState(cur, p) == IF cur = p THEN "Running" ELSE "Runnable"

\* the hart never left the handler of p's syscall
InHandler(p) == halted = "deadlock" /\ current_process = p

RunningPids == {p \in DOMAIN process_table : process_table[p].state = "Running"}

ErrorCodes ==
    {ERR_INVALID_PROGRAM, ERR_INVALID_PID, ERR_INVALID_PTR, ERR_PORT_ALREADY_USED,
     ERR_INVALID_DESCRIPTOR, ERR_NO_RECEIVE_IP_YET}

----------------------------------------------------------------------------
(* C1: a process that waits for q is made ready, with return value 0, by the
   trap that removes q from the process table (sys_exit or send_ctrl_c), and
   once its wait call has returned no process is Waiting unless some live
   process holds it in notify_on_die. *)
C1_WaiterWokenByKill ==
    /\ [](\A p \in DOMAIN process_table :
            (process_table[p].state = "Waiting" /\ ~InHandler(p)) =>
                \E q \in DOMAIN process_table : p \in process_table[q].notify_on_die)
    /\ [][\A q \in DOMAIN process_table \ DOMAIN process_table' :
            \A p \in process_table[q].notify_on_die \cap DOMAIN process_table' :
                /\ process_table'[p].state = ReadyState(current_process', p)
                /\ ReturnValue(process_table', current_process', cpu', p) = 0]_vars

\* ctrl-C has just killed a process another live process was waiting for
C1_Witness ==
    /\ last_trap.op = "ctrl_c"
    /\ last_trap.arg.pid \notin DOMAIN process_table
    /\ \E p \in last_trap.woken :
           /\ p \in DOMAIN process_table
           /\ process_table[p].state \in {"Runnable", "Running"}

----------------------------------------------------------------------------
(* C2: with the set of schedulable processes unchanged, any n consecutive
   schedule() calls, n the size of that set, install each of them exactly
   once.  sched_log.picks holds the pids installed by the latest n calls
   since the set last changed. *)
C2_RoundRobin ==
    LET n == Cardinality(Schedulable(process_table))
    IN  (sched_log.on /\ n >= 1 /\ Len(sched_log.picks) = n) =>
            {sched_log.picks[i] : i \in 1..n} = Schedulable(process_table)

----------------------------------------------------------------------------
(* C3, as stated: in every state exactly one process is Running and it is
   the current process. *)
C3_ExactlyOneRunning ==
    halted = "no" => (Cardinality(RunningPids) = 1 /\ RunningPids = {current_process})

(* C3, amended: whenever the hart runs user code or idles, and at the entry
   of every syscall handler (sys_panic included), at most one process is
   Running and it is the current process; a process of the table that is
   current is Running; while the hart idles the dummy is current and no
   process is Running. *)
C3_RunningIsCurrent ==
    /\ RunningPids \subseteq {current_process}
    /\ (current_process # NEVER_PID /\ ~InHandler(current_process)) =>
           /\ current_process \in DOMAIN process_table
           /\ process_table[current_process].state = "Running"

\* the third process called sys_panic while the two others were ready
C3_Witness ==
    /\ halted = "panic"
    /\ last_trap.op = "panic"
    /\ current_process = 3
    /\ process_table[3].state = "Running"
    /\ \E p \in DOMAIN process_table : process_table[p].state = "Runnable"

----------------------------------------------------------------------------
(* C4, as stated: in user mode sscratch is the address of the running
   process's trap frame, in kernel mode that of the kernel trap frame. *)
C4_SscratchFollowsMode ==
    halted = "no" =>
        /\ (current_process # NEVER_PID /\ ~cpu.kmode) =>
               cpu.sscratch = ProcessTrapFrame(current_process)
        /\ cpu.kmode => cpu.sscratch = KernelTrapFrame

(* C4, amended: sscratch is the address of the hart's kernel trap frame in
   every state, in user mode as in kernel mode; a process runs in user mode
   on its own page table, the idle hart is in kernel mode on the kernel's;
   and the context a trap saves goes only into the process that was current,
   so a trap taken while the hart idles changes no process's saved pc. *)
C4_SscratchKernelFrame ==
    /\ [](cpu.sscratch = KernelTrapFrame)
    /\ [](halted = "no" =>
            IF current_process = NEVER_PID
            THEN cpu.kmode /\ cpu.satp = KERNEL_PAGE_TABLES
            ELSE ~cpu.kmode /\ cpu.satp = current_process)
    /\ [][\A p \in DOMAIN process_table \cap DOMAIN process_table' :
            p # current_process =>
                /\ process_table'[p].pc = process_table[p].pc
                /\ process_table'[p].in_kernel_mode = process_table[p].in_kernel_mode]_vars

\* a process runs in user mode after a trap taken in the idle loop was saved
\* in the dummy
C4_Witness ==
    /\ halted = "no"
    /\ current_process # NEVER_PID
    /\ ~cpu.kmode
    /\ dummy_process.pc = wfi_loop
    /\ dummy_process.in_kernel_mode
    /\ cpu.sscratch = KernelTrapFrame

----------------------------------------------------------------------------
(* C5: every pid in the table is non-zero and below the counter; a process
   that enters the table has the counter's value as its pid, which is above
   every pid assigned before, and the counter moves past it and never goes
   back, so no pid is assigned twice. *)
C5_PidsFresh ==
    /\ [](\A p \in DOMAIN process_table : p # NEVER_PID /\ p > 0 /\ p < next_pid)
    /\ [][/\ next_pid' >= next_pid
          /\ \A p \in DOMAIN process_table' \ DOMAIN process_table :
                 p = next_pid /\ next_pid' > p]_vars

\* execute has just returned pid 3 after the process with pid 2 was killed
C5_Witness ==
    /\ last_trap.op = "execute"
    /\ current_process = last_trap.caller
    /\ cpu.a0 = 3
    /\ 3 \in DOMAIN process_table
    /\ 2 \notin DOMAIN process_table

----------------------------------------------------------------------------
(* C6: sys_wait(pid) with pid not in the table returns InvalidPid, the caller
   stays the running process and the process table (states, saved return
   codes, notify_on_die sets) is unchanged; with pid in the table the call
   leaves the caller Waiting, in pid's notify_on_die, with saved return
   value 0, and the hart goes on to another process or idles. *)
C6_SysWait ==
    [][last_trap'.op = "wait" =>
        LET caller == current_process
            pid == last_trap'.arg.pid
        IN  IF pid \notin DOMAIN process_table
            THEN /\ cpu'.a0 = ERR_INVALID_PID
                 /\ current_process' = caller
                 /\ process_table' = process_table
            ELSE /\ process_table'[caller].state = "Waiting"
                 /\ caller \in process_table'[pid].notify_on_die
                 /\ process_table'[caller].a0 = 0
                 /\ current_process' # caller
                 /\ halted' = "no"]_vars

----------------------------------------------------------------------------
(* C7: a syscall that returns an error leaves the caller's pid, state,
   address space and socket table, the data buffered in its sockets and
   every notify_on_die set as they were. *)
C7_ErrorLeavesStateUnchanged ==
    [][(/\ last_trap'.op \in SyscallNames
        /\ halted' = "no"
        /\ current_process' = current_process
        /\ cpu'.a0 \in ErrorCodes) =>
           /\ process_table' = process_table
           /\ \A d \in process_table[current_process].udp_sockets :
                  /\ d \in DOMAIN open_udp_sockets'
                  /\ open_udp_sockets'[d] = open_udp_sockets[d]]_vars

----------------------------------------------------------------------------
(* C8: the kernel panics in no syscall other than sys_panic. *)
C8_OnlySysPanicPanics == halted = "panic" => last_trap.op = "panic"

----------------------------------------------------------------------------
(* C9: a reference argument is rejected with InvalidPtr exactly when some
   page of its range lacks V or U, or, for a &mut argument, lacks W. *)
C9_WritableOnlyForMut ==
    [][(/\ last_trap'.op \in {"execute", "write_back_udp_socket", "read_udp_socket"}
        /\ halted' = "no") =>
           LET arg == last_trap'.arg
               valid == \A i \in 1..Len(arg.pages) :
                            /\ arg.pages[i].v
                            /\ arg.pages[i].u
                            /\ (arg.mutable => arg.pages[i].w)
           IN  (cpu'.a0 = ERR_INVALID_PTR) <=> ~valid]_vars

----------------------------------------------------------------------------
(* C10: push(byte) with registered processes leaves each of them ready
   (Runnable, or Running for the one push's own schedule() installs on an
   idle hart) with byte as its pending a0, empties the wakeup set and leaves
   the buffer as it was; with no process registered it appends byte to the
   buffer and changes no process. *)
C10_PushWakesAll ==
    [][last_trap'.op = "uart" =>
        LET byte == last_trap'.arg.n
            registered == stdin_buffer.wakeup_queue
        IN  IF registered # {}
            THEN /\ \A p \in registered \cap DOMAIN process_table :
                        /\ p \in DOMAIN process_table'
                        /\ process_table'[p].state = ReadyState(current_process', p)
                        /\ ReturnValue(process_table', current_process', cpu', p) = byte
                 /\ current_process # NEVER_PID => current_process' = current_process
                 /\ stdin_buffer'.wakeup_queue = {}
                 /\ stdin_buffer'.data = stdin_buffer.data
            ELSE /\ stdin_buffer'.data = Append(stdin_buffer.data, byte)
                 /\ stdin_buffer'.wakeup_queue = {}
                 /\ process_table' = process_table
                 /\ current_process' = current_process]_vars

\* one byte has just been delivered to two processes that waited for input
C10_Witness ==
    /\ last_trap.op = "uart"
    /\ Cardinality(last_trap.woken) >= 2
    /\ \A p \in last_trap.woken :
           /\ p \in DOMAIN process_table
           /\ ReturnValue(process_table, current_process, cpu, p) = last_trap.arg.n
    /\ stdin_buffer.data = <<>>

----------------------------------------------------------------------------
(* C11: the bytes pop has returned (through sys_read_input and through
   sys_read_input_wait on a non-empty buffer) are, in order, a prefix of the
   bytes push has enqueued, the rest being the buffer's content; and
   sys_read_input on an empty buffer returns None, leaves the caller the
   running process and changes nothing but the caller's a0 and pc. *)
C11_ArrivalOrder ==
    /\ [](stdin_log.on =>
            /\ Len(stdin_log.deq) <= Len(stdin_log.enq)
            /\ stdin_log.deq = SubSeq(stdin_log.enq, 1, Len(stdin_log.deq))
            /\ stdin_log.enq = stdin_log.deq \o stdin_buffer.data)
    /\ [][(last_trap'.op = "read_input" /\ stdin_buffer.data = <<>>) =>
            /\ cpu'.a0 = NONE_BYTE
            /\ current_process' = current_process
            /\ process_table' = process_table
            /\ stdin_buffer' = stdin_buffer
            /\ cpu' = [cpu EXCEPT !.a0 = NONE_BYTE, !.sepc = cpu'.sepc]
            /\ halted' = "no"]_vars

\* two different bytes were consumed in the order they arrived, one by each
\* read syscall, and a third is still buffered
C11_Witness ==
    /\ stdin_log.on
    /\ stdin_log.deq = <<1, 2>>
    /\ Len(stdin_log.enq) = 3
    /\ last_trap.op = "read_input_wait"
    /\ cpu.a0 = 2

----------------------------------------------------------------------------
(* C12: a process is registered in the wakeup set exactly while it is blocked
   in read_input_wait; a push that finds processes registered leaves the
   buffer as it was, so the byte it hands out is returned by no later pop;
   and a push changes neither the state nor the registers (saved, or live
   when it is the running process) of a process that is not registered,
   which a process woken earlier no longer is. *)
C12_WokenOncePerCall ==
    /\ [](\A p \in DOMAIN process_table :
            process_table[p].state = "WaitingForInput" <=>
                p \in stdin_buffer.wakeup_queue)
    /\ [][last_trap'.op = "uart" =>
            /\ stdin_buffer.wakeup_queue # {} =>
                   /\ stdin_buffer'.data = stdin_buffer.data
                   /\ stdin_buffer'.wakeup_queue = {}
            /\ \A p \in DOMAIN process_table \ stdin_buffer.wakeup_queue :
                   /\ p \in DOMAIN process_table'
                   /\ process_table'[p] = process_table[p]
                   /\ current_process = p =>
                          current_process' = p /\ cpu'.a0 = cpu.a0]_vars

\* a push has just woken one process while process 3, woken or served
\* earlier with the other byte, waits for the hart with that byte
C12_Witness ==
    /\ last_trap.op = "uart"
    /\ last_trap.woken # {}
    /\ 3 \in DOMAIN process_table
    /\ 3 \notin last_trap.woken
    /\ process_table[3].state = "Runnable"
    /\ process_table[3].a0 \in Bytes \ {last_trap.arg.n}
    /\ \A q \in last_trap.woken :
           ReturnValue(process_table, current_process, cpu, q) = last_trap.arg.n

----------------------------------------------------------------------------
(* C13: sys_read_input_wait on an empty buffer leaves the caller
   WaitingForInput, registered, off the hart and saved at the instruction
   after its ecall; the push that wakes a process leaves the byte as its
   pending a0 and its resume address as it was saved; and a Runnable process
   keeps its saved a0 and pc until it is installed, when exactly these go
   into the hart's a0 and sepc in user mode.  So the process finds the
   delivered byte in a0, not the handler's placeholder 0, and continues
   after the ecall. *)
C13_BlockedReadResumes ==
    /\ [][(last_trap'.op = "read_input_wait" /\ stdin_buffer.data = <<>>) =>
            LET caller == current_process
            IN  /\ process_table'[caller].state = "WaitingForInput"
                /\ caller \in stdin_buffer'.wakeup_queue
                /\ current_process' # caller
                /\ \E pc \in UserPcs : process_table'[caller].pc = pc + 4
                /\ ~process_table'[caller].in_kernel_mode]_vars
    /\ [][last_trap'.op = "uart" =>
            \A p \in stdin_buffer.wakeup_queue \cap DOMAIN process_table :
                /\ ReturnValue(process_table', current_process', cpu', p)
                       = last_trap'.arg.n
                /\ (IF current_process' = p THEN cpu'.sepc ELSE process_table'[p].pc)
                       = process_table[p].pc]_vars
    /\ [][\A p \in DOMAIN process_table \cap DOMAIN process_table' :
            process_table[p].state = "Runnable" =>
                IF current_process' = p
                THEN /\ cpu'.a0 = process_table[p].a0
                     /\ cpu'.sepc = process_table[p].pc
                     /\ ~cpu'.kmode
                ELSE /\ process_table'[p].a0 = process_table[p].a0
                     /\ process_table'[p].pc = process_table[p].pc
                     /\ process_table'[p].state = "Runnable"]_vars

\* a push on the idle hart has put a process that was blocked in
\* read_input_wait back into user mode, after its ecall, with the byte in a0
C13_Witness ==
    /\ last_trap.op = "uart"
    /\ last_trap.caller = NEVER_PID
    /\ current_process \in last_trap.woken
    /\ cpu.a0 = last_trap.arg.n
    /\ cpu.sepc = 4
    /\ ~cpu.kmode
    /\ halted = "no"

----------------------------------------------------------------------------
(* C14: a push that wakes processes on an idle hart installs one of them at
   once, in user mode with the timer armed; whenever a process is Runnable
   the timer is armed, so no state has a Runnable process on a hart that
   idles with the timer off; and every process such a push has woken becomes
   the current process, unless it is removed or the hart stops first. *)
C14_WakeOnIdleHart ==
    /\ [][(/\ last_trap'.op = "uart"
           /\ current_process = NEVER_PID
           /\ stdin_buffer.wakeup_queue \cap DOMAIN process_table # {}) =>
              /\ current_process' \in stdin_buffer.wakeup_queue \cap DOMAIN process_table
              /\ process_table'[current_process'].state = "Running"
              /\ cpu'.timer
              /\ ~cpu'.kmode
              /\ cpu'.sepc # wfi_loop]_vars
    /\ []((halted = "no" /\ \E p \in DOMAIN process_table :
                                process_table[p].state = "Runnable") => cpu.timer)
    /\ \A p \in 1..MaxWakePid :
           (/\ last_trap.op = "uart"
            /\ last_trap.caller = NEVER_PID
            /\ p \in last_trap.woken)
               ~> \/ current_process = p
                  \/ p \notin DOMAIN process_table
                  \/ halted # "no"

----------------------------------------------------------------------------
(* C15: on sys_exit handle_syscall returns None and the handler's current
   pid is NEVER_PID; the exiting pid has left the process table; every other
   process keeps the a0 and pc it had saved, the one that runs next finding
   exactly these in the hart's a0 and sepc. *)
C15_ExitWritesNoResult ==
    [][last_trap'.op = "exit" =>
        /\ last_trap'.returned = "none"
        /\ last_trap'.handler_pid = NEVER_PID
        /\ current_process \notin DOMAIN process_table'
        /\ DOMAIN process_table' = DOMAIN process_table \ {current_process}
        /\ \A p \in DOMAIN process_table' :
               /\ ReturnValue(process_table', current_process', cpu', p)
                      = process_table[p].a0
               /\ (IF current_process' = p THEN cpu'.sepc ELSE process_table'[p].pc)
                      = process_table[p].pc]_vars

\* a process has exited and the process that runs next holds the pid its
\* own execute call had returned
C15_Witness ==
    /\ last_trap.op = "exit"
    /\ last_trap.returned = "none"
    /\ last_trap.caller \notin DOMAIN process_table
    /\ current_process \in DOMAIN process_table
    /\ cpu.a0 \in 2..MaxPid
    /\ halted = "no"

----------------------------------------------------------------------------
(* C16: in every reachable state every pid held in the notify_on_die set of
   a process of the table is itself a pid of the table. *)
C16_NotifyOnDieLive ==
    \A q \in DOMAIN process_table :
        process_table[q].notify_on_die \subseteq DOMAIN process_table

----------------------------------------------------------------------------
(* C17: send_ctrl_c removes exactly the highest pid among the processes not
   named "yash", or nothing when there is none; every shell and every other
   process stays; the interrupted process, if it survives, has the hart's a0
   and sepc as its saved context; schedule() then starts from the dummy: it
   installs the lowest ready pid, idles when none is ready and shuts down when
   the table is empty. *)
C17_CtrlCKillsHighestNonShell ==
    [][last_trap'.op = "ctrl_c" =>
        LET others == {p \in DOMAIN process_table : process_table[p].name # "yash"}
            gone == IF others = {} THEN {} ELSE {Max(others)}
            cur == current_process
            ready == {p \in DOMAIN process_table' :
                        process_table'[p].state \in {"Runnable", "Running"}}
        IN  /\ DOMAIN process_table' = DOMAIN process_table \ gone
            /\ \A p \in DOMAIN process_table :
                   process_table[p].name = "yash" =>
                       /\ p \in DOMAIN process_table'
                       /\ process_table'[p].name = "yash"
            /\ cur \in DOMAIN process_table' =>
                   /\ ReturnValue(process_table', current_process', cpu', cur) = cpu.a0
                   /\ (IF current_process' = cur THEN cpu'.sepc
                       ELSE process_table'[cur].pc) = cpu.sepc
            /\ (halted' = "shutdown") <=> (DOMAIN process_table' = {})
            /\ halted' = "no" =>
                   current_process' = IF ready = {} THEN NEVER_PID ELSE Min(ready)]_vars

\* ctrl-C has removed a process while a shell with a higher pid stayed
C17_Witness ==
    /\ last_trap.op = "ctrl_c"
    /\ last_trap.arg.pid # NEVER_PID
    /\ last_trap.arg.pid \notin DOMAIN process_table
    /\ \E p \in DOMAIN process_table :
           p > last_trap.arg.pid /\ process_table[p].name = "yash"

----------------------------------------------------------------------------
(* C18: a step of the running system shuts it down exactly when it leaves
   the process table empty: schedule() idles while a process exists, also
   when none of them is ready, and shuts down once the last one is gone. *)
C18_ShutdownIffEmpty ==
    [][halted = "no" =>
        ((halted' = "shutdown") <=> (DOMAIN process_table' = {}))]_vars

\* send_ctrl_c has called schedule() while every process of the table was
\* blocked: the hart idles
C18_Witness ==
    /\ last_trap.op = "ctrl_c"
    /\ halted = "no"
    /\ DOMAIN process_table # {}
    /\ \A p \in DOMAIN process_table :
           process_table[p].state \in {"Waiting", "WaitingForInput"}
    /\ current_process = NEVER_PID
    /\ cpu.sepc = wfi_loop

----------------------------------------------------------------------------
(* The locks a trap takes.  A lock is [kind, pid]; pid tells the process
   locks apart, the dummy's being that of NEVER_PID.  The locks of a code
   path are the sequence of its acquire and release events, in program
   order. *)

Lock(kind, pid) == [kind |-> kind, pid |-> pid]

\* STDIN_BUFFER
STDIN_BUFFER_LOCK == Lock("stdin", NEVER_PID)

\* scheduler::THE, Cpu::with_scheduler
SCHEDULER_LOCK == Lock("scheduler", NEVER_PID)

\* process_table::THE
PROCESS_TABLE_LOCK == Lock("process_table", NEVER_PID)

\* the mutex of a ProcessRef
ProcessLock(pid) == Lock("process", pid)

\* the fixed order: page allocator < heap < process table < individual
\* process < scheduler < stdin
LockRank(l) ==
    CASE l.kind = "page_allocator" -> 1
      [] l.kind = "heap" -> 2
      [] l.kind = "process_table" -> 3
      [] l.kind = "process" -> 4
      [] l.kind = "scheduler" -> 5
      [] l.kind = "stdin" -> 6

\* lock() or with_lock around the events of inner; the guard is dropped after
WithLock(l, inner) ==
    <<[acq |-> TRUE, lock |-> l]>> \o inner \o <<[acq |-> FALSE, lock |-> l]>>

\* the loop of StdinBuffer::push: each registered process that exists is
\* locked and resumed
RECURSIVE wake_all_locks(_)
wake_all_locks(pids) ==
    IF pids = {} THEN <<>>
    ELSE WithLock(ProcessLock(Min(pids)), <<>>) \o wake_all_locks(pids \ {Min(pids)})

\* Scheduler::queue_current_process_back: with_lock on the process that was
\* current
queue_current_process_back_locks(s) == WithLock(ProcessLock(s.cur), <<>>)

\* Scheduler::schedule: queue_current_process_back, then with_lock on the
\* process that prepare_next_process has chosen
schedule_locks(s) ==
    LET s1 == queue_current_process_back(s)
        next == next_runnable(s1, s.cur)
    IN  queue_current_process_back_locks(s)
        \o (IF is_empty(s1) \/ next = NEVER_PID THEN <<>>
            ELSE WithLock(ProcessLock(next), <<>>))

\* StdinBuffer::push, called on the locked buffer
push_locks(s) ==
    LET notified == s.stdin.wakeup_queue # {}
        s1 == wake_all(s, 0)
    IN  WithLock(PROCESS_TABLE_LOCK,
                 wake_all_locks(s.stdin.wakeup_queue \cap DOMAIN s.pt))
        \o WithLock(SCHEDULER_LOCK,
                    IF notified /\ is_current_process_energy_saver(s1)
                    THEN schedule_locks(s1) ELSE <<>>)

\* Scheduler::kill_current_process: current_process.lock().get_pid()
kill_current_process_locks(s) == WithLock(ProcessLock(s.cur), <<>>)

\* Scheduler::let_current_process_wait_for: the guard of the current process
\* lives to the end of the function, that of the awaited process to the end
\* of its statement
let_current_process_wait_for_locks(s, pid) ==
    IF ~get_process(s, pid) THEN <<>>
    ELSE WithLock(ProcessLock(s.cur), WithLock(ProcessLock(pid), <<>>))

\* Scheduler::send_ctrl_c
send_ctrl_c_locks(s) ==
    LET s1 == queue_current_process_back(s)
        highest_pid == get_highest_pid_without(s1, {"yash"})
        s2 == IF highest_pid # NEVER_PID
              THEN kill(activate_page_table(s1, KERNEL_PAGE_TABLES), highest_pid)
              ELSE s1
    IN  queue_current_process_back_locks(s) \o schedule_locks(s2)

\* SyscallHandler::new
new_locks(s) == WithLock(SCHEDULER_LOCK, <<>>) \o WithLock(ProcessLock(s.cur), <<>>)

sys_read_input_locks(s) == WithLock(STDIN_BUFFER_LOCK, <<>>)

sys_read_input_wait_locks(s) ==
    WithLock(STDIN_BUFFER_LOCK, <<>>)
    \o (IF s.stdin.data # <<>> THEN <<>>
        ELSE WithLock(STDIN_BUFFER_LOCK, <<>>) \o WithLock(ProcessLock(s.cur), <<>>))

sys_exit_locks(s) ==
    WithLock(SCHEDULER_LOCK, <<>>)
    \o WithLock(SCHEDULER_LOCK, kill_current_process_locks(s))

\* name.validate(self) locks the current process, start_program runs under
\* the scheduler lock
sys_execute_locks(s, arg) ==
    WithLock(ProcessLock(s.cur), <<>>)
    \o (IF ~validate(arg) THEN <<>> ELSE WithLock(SCHEDULER_LOCK, <<>>))

sys_wait_locks(s, arg) ==
    WithLock(SCHEDULER_LOCK, let_current_process_wait_for_locks(s, arg.pid))

\* handle_syscall: the handler is built, then dispatch runs one sys_ function
handle_syscall_locks(s, nr, arg) ==
    new_locks(s)
    \o (CASE nr = "read_input" -> sys_read_input_locks(s)
          [] nr = "read_input_wait" -> sys_read_input_wait_locks(s)
          [] nr = "exit" -> sys_exit_locks(s)
          [] nr = "execute" -> sys_execute_locks(s, arg)
          [] nr = "wait" -> sys_wait_locks(s, arg)
          [] OTHER -> <<>>)

\* handle_exception: the syscall, then schedule() under the scheduler lock
\* when the caller no longer runs
handle_exception_locks(s, nr, arg) ==
    LET r == handle_syscall(s, nr, arg)
    IN  handle_syscall_locks(s, nr, arg)
        \o (IF r.s.halted = "no"
               /\ (r.s.cur = NEVER_PID \/ r.s.pt[r.s.cur].state # "Running")
            THEN WithLock(SCHEDULER_LOCK, schedule_locks(r.s)) ELSE <<>>)

\* the locks of the trap that last_trap t tells of, taken in state s
TrapLocks(s, t) ==
    CASE t.op = "timer" -> WithLock(SCHEDULER_LOCK, schedule_locks(s))
      [] t.op = "uart" -> WithLock(STDIN_BUFFER_LOCK, push_locks(s))
      [] t.op = "ctrl_c" -> WithLock(SCHEDULER_LOCK, send_ctrl_c_locks(s))
      [] t.op \in SyscallNames -> handle_exception_locks(s, t.op, t.arg)
      [] OTHER -> <<>>

\* the locks held when event i of tr happens
HeldBefore(tr, i) ==
    {tr[j].lock : j \in {j \in 1..(i - 1) :
        /\ tr[j].acq
        /\ \A k \in (j + 1)..(i - 1) : tr[k].acq \/ tr[k].lock # tr[j].lock}}

\* every lock is acquired while no lock later in the order, and not this
\* lock itself, is held (two process locks may nest)
OrderRespected(tr) ==
    \A i \in 1..Len(tr) : tr[i].acq =>
        \A h \in HeldBefore(tr, i) :
            h # tr[i].lock /\ LockRank(h) <= LockRank(tr[i].lock)

\* nothing but the buffer itself is locked while the stdin lock is held
NothingUnderStdin(tr) ==
    \A i \in 1..Len(tr) : tr[i].acq => STDIN_BUFFER_LOCK \notin HeldBefore(tr, i)

(* C19: every trap takes its locks in the order page allocator < heap <
   process table < individual process < scheduler < stdin, never a lock it
   holds already, and takes no lock while it holds the stdin lock. *)
C19_LockOrder ==
    [][/\ OrderRespected(TrapLocks(St, last_trap'))
       /\ NothingUnderStdin(TrapLocks(St, last_trap'))]_vars

----------------------------------------------------------------------------
\* the blocks of the free list, from genesis_block.next on
RECURSIVE FreeListFrom(_, _, _)
FreeListFrom(h, block, fuel) ==
    IF block = NULL \/ fuel = 0 THEN {}
    ELSE {block} \cup FreeListFrom(h, h.blocks[block].next, fuel - 1)

FreeList(h) == FreeListFrom(h, h.genesis_next, Cardinality(DOMAIN h.blocks))

(* C20: no assertion of the heap fails; every pointer alloc has handed out
   is 8-byte aligned, its block has next == None and a data size that is a
   multiple of 8 and at least the size asked for; every block of the free
   list has a total size that is a multiple of 8 and at least
   METADATA_SIZE + DATA_ALIGNMENT. *)
C20_HeapBlocks ==
    /\ ~heap.panicked
    /\ \A a \in heap.live :
           LET block == heap.blocks[from_data_ptr(a.ptr)]
           IN  /\ a.ptr % DATA_ALIGNMENT = 0
               /\ block.next = NULL
               /\ data_size(block.size) % DATA_ALIGNMENT = 0
               /\ data_size(block.size) >= a.size
    /\ \A b \in FreeList(heap) :
           /\ heap.blocks[b].size % DATA_ALIGNMENT = 0
           /\ heap.blocks[b].size >= METADATA_SIZE + DATA_ALIGNMENT

\* alloc has reused a freed block that was too small to split, larger than
\* the request needs, while other blocks are on the free list
C20_Witness ==
    /\ heap.last.op = "alloc"
    /\ heap.last.ptr # NULL
    /\ [ptr |-> heap.last.ptr, size |-> heap.last.size] \in heap.live
    /\ heap.blocks[from_data_ptr(heap.last.ptr)].size > from_layout(heap.last.size)
    /\ heap.blocks[from_data_ptr(heap.last.ptr)].size < PAGE_SIZE
    /\ Cardinality(FreeList(heap)) >= 2

----------------------------------------------------------------------------
\* the blocks handed out and not given back
LiveBlocks(h) == {from_data_ptr(a.ptr) : a \in h.live}

\* the bytes of a block: header and data
Span(h, block) == block..(block + h.blocks[block].size - 1)

RECURSIVE TotalSize(_, _)
TotalSize(h, blocks) ==
    IF blocks = {} THEN 0
    ELSE LET b == Min(blocks)
         IN  h.blocks[b].size + TotalSize(h, blocks \ {b})

\* no byte of the pages taken is lost or owned twice
HeapAccounted(h) ==
    /\ FreeList(h) \cap LiveBlocks(h) = {}
    /\ \A b1, b2 \in FreeList(h) \cup LiveBlocks(h) :
           b1 # b2 => Span(h, b1) \cap Span(h, b2) = {}
    /\ TotalSize(h, FreeList(h) \cup LiveBlocks(h)) = PAGE_SIZE * h.pages

(* C21: the free blocks and the allocated blocks are pairwise disjoint and
   their total sizes add up to the pages taken from the page allocator; a
   dealloc puts exactly the block of the pointer, with the size it had when
   it was handed out, on the free list and changes no other block. *)
C21_NoByteLostOrShared ==
    /\ []HeapAccounted(heap)
    /\ [][heap'.last.op = "dealloc" =>
            LET block == from_data_ptr(heap'.last.ptr)
            IN  /\ FreeList(heap') = FreeList(heap) \cup {block}
                /\ block \notin FreeList(heap)
                /\ LiveBlocks(heap') = LiveBlocks(heap) \ {block}
                /\ \A b \in DOMAIN heap.blocks :
                       heap'.blocks[b].size = heap.blocks[b].size
                /\ data_size(heap'.blocks[block].size) >= heap'.last.size]_vars

\* a dealloc has returned a block while another allocation is outstanding
\* and the free list holds further blocks
C21_Witness ==
    /\ heap.last.op = "dealloc"
    /\ from_data_ptr(heap.last.ptr) \in FreeList(heap)
    /\ Cardinality(FreeList(heap)) >= 3
    /\ heap.live # {}
    /\ heap.pages = MaxHeapPages

----------------------------------------------------------------------------
\* the free list as the sequence of its blocks, head first
RECURSIVE FreeSeqFrom(_, _, _)
FreeSeqFrom(h, block, fuel) ==
    IF block = NULL \/ fuel = 0 THEN <<>>
    ELSE <<block>> \o FreeSeqFrom(h, h.blocks[block].next, fuel - 1)

FreeSeq(h) == FreeSeqFrom(h, h.genesis_next, Cardinality(DOMAIN h.blocks))

\* the free blocks that are large enough for a layout of this size
Fitting(h, size) == {b \in FreeList(h) : h.blocks[b].size >= from_layout(size)}

\* the first of them on the list
FirstFit(h, size) ==
    LET s == FreeSeq(h)
    IN  s[Min({i \in 1..Len(s) : s[i] \in Fitting(h, size)})]

(* C22: alloc returns null exactly when no free block is large enough and
   the page allocator has not the pages needed, and then the heap is as it
   was; when a free block is large enough, alloc takes no page, hands out
   the first such block of the list and, if it splits, puts the rest of that
   block, its size minus the rounded request, at the head of the list. *)
C22_NullIffExhausted ==
    [][heap'.last.op = "alloc" =>
        LET size == heap'.last.size
            requested_size == from_layout(size)
            ptr == heap'.last.ptr
        IN  /\ (ptr = NULL) <=>
                   /\ Fitting(heap, size) = {}
                   /\ heap.pages + minimum_amount_of_pages(requested_size) > MaxHeapPages
            /\ ptr = NULL =>
                   /\ heap'.genesis_next = heap.genesis_next
                   /\ heap'.blocks = heap.blocks
                   /\ heap'.pages = heap.pages
                   /\ heap'.live = heap.live
            /\ Fitting(heap, size) # {} =>
                   LET block == FirstFit(heap, size)
                       rest == heap.blocks[block].size - requested_size
                   IN  /\ heap'.pages = heap.pages
                       /\ ptr = get_data_ptr(block)
                       /\ IF rest < MINIMUM_SIZE
                          THEN /\ FreeList(heap') = FreeList(heap) \ {block}
                               /\ heap'.blocks[block].size = heap.blocks[block].size
                          ELSE /\ FreeList(heap') =
                                      (FreeList(heap) \ {block}) \cup {block + requested_size}
                               /\ heap'.genesis_next = block + requested_size
                               /\ heap'.blocks[block].size = requested_size
                               /\ heap'.blocks[block + requested_size].size = rest]_vars

\* every page went into one allocation, it was given back, and a small alloc
\* has reused its block: one free block is left, covering the rest of it
C22_Witness ==
    /\ heap.last.op = "alloc"
    /\ heap.last.ptr = get_data_ptr(HEAP_START)
    /\ heap.pages = MaxHeapPages
    /\ heap.pages >= 2
    /\ heap.live = {[ptr |-> heap.last.ptr, size |-> heap.last.size]}
    /\ heap.blocks[HEAP_START].size = from_layout(heap.last.size)
    /\ Cardinality(FreeList(heap)) = 1
    /\ \A b \in FreeList(heap) :
           heap.blocks[b].size = PAGE_SIZE * heap.pages - from_layout(heap.last.size)

----------------------------------------------------------------------------
(* C23: dealloc puts the freed block in front of the free list, which
   otherwise stays as it was, one block longer; the freed block and every
   block of the list keep their sizes, nothing is merged. *)
C23_DeallocPushesAtHead ==
    [][heap'.last.op = "dealloc" =>
        LET block == from_data_ptr(heap'.last.ptr)
        IN  /\ FreeSeq(heap') = <<block>> \o FreeSeq(heap)
            /\ Len(FreeSeq(heap')) = Len(FreeSeq(heap)) + 1
            /\ heap'.blocks[block].size = heap.blocks[block].size
            /\ \A b \in FreeList(heap) :
                   heap'.blocks[b].size = heap.blocks[b].size]_vars

\* the block freed last lies next to the block that is second on the list
C23_Witness ==
    /\ heap.last.op = "dealloc"
    /\ Len(FreeSeq(heap)) >= 2
    /\ FreeSeq(heap)[1] = from_data_ptr(heap.last.ptr)
    /\ FreeSeq(heap)[1] + heap.blocks[FreeSeq(heap)[1]].size = FreeSeq(heap)[2]

----------------------------------------------------------------------------
(* C24: once one cycle ptr = alloc(L); dealloc(ptr, L) is complete, every
   further cycle with the same L takes no page, neither in its alloc nor in
   its dealloc, and ends with a free list that is not longer than it was. *)
C24_CyclesBounded ==
    [][heap.cycle.count >= 1 =>
        /\ heap'.pages = heap.cycle.pages
        /\ heap'.cycle.count > heap.cycle.count =>
               FreeLen(heap') <= heap.cycle.len]_vars

\* three cycles are complete, the first of which took a page and split it,
\* after other allocations
C24_Witness ==
    /\ heap.cycle.count >= 3
    /\ heap.cycle.ptr = NULL
    /\ heap.last.op = "dealloc"
    /\ heap.ops >= 2
    /\ heap.cycle.len >= 3

----------------------------------------------------------------------------
\* the last trap has called schedule(): a timer interrupt, ctrl-C, exit, a
\* syscall that blocked its caller, a byte that woke processes on an idle hart
ScheduleCalled(t, pt) ==
    \/ t.op \in {"timer", "ctrl_c", "exit"}
    \/ /\ t.op \in {"wait", "read_input_wait"}
       /\ t.caller \in DOMAIN pt
       /\ pt[t.caller].state \in {"Waiting", "WaitingForInput"}
    \/ t.op = "uart" /\ t.caller = NEVER_PID /\ t.woken # {}

\* the process that was current when it called schedule(): sys_exit and
\* send_ctrl_c have made the dummy current before
PreviousPid(t) == IF t.op \in {"ctrl_c", "exit"} THEN NEVER_PID ELSE t.caller

(* C25: the process schedule() installs was Runnable when next_runnable
   looked (Runnable or Running before the trap and not blocked by it, or
   woken by it) and is never the dummy; it is the one with the smallest pid
   above the previous pid, else the one with the smallest pid, which may be
   the previous process; the dummy stays current only when none is
   Runnable. *)
C25_NextRunnable ==
    [][(ScheduleCalled(last_trap', process_table') /\ halted' = "no") =>
        LET t == last_trap'
            blocked == {p \in DOMAIN process_table' :
                           process_table'[p].state \in {"Waiting", "WaitingForInput"}}
            runnable == {p \in DOMAIN process_table' \ blocked :
                            \/ process_table[p].state \in {"Runnable", "Running"}
                            \/ p \in t.woken}
            after == {p \in runnable : p > PreviousPid(t)}
        IN  /\ current_process' =
                   IF runnable = {} THEN NEVER_PID
                   ELSE IF after # {} THEN Min(after) ELSE Min(runnable)
            /\ current_process' # NEVER_PID =>
                   /\ process_table'[current_process'].state = "Running"
                   /\ current_process' \in runnable
            /\ \A p \in blocked : current_process' # p]_vars

\* a timer interrupt has wrapped around: a process with a lower pid runs
\* although one with a higher pid exists, which is blocked
C25_Witness ==
    /\ last_trap.op = "timer"
    /\ current_process # NEVER_PID
    /\ current_process < last_trap.caller
    /\ \E p \in DOMAIN process_table :
           p > last_trap.caller /\ process_table[p].state \in {"Waiting", "WaitingForInput"}

----------------------------------------------------------------------------
(* C26: a process that is Waiting or WaitingForInput stays in the table and
   in its state over every step, except that a Waiting process is made
   Runnable by the death of a process whose notify_on_die holds it, a
   WaitingForInput process by a byte that push delivers to it, and either is
   removed when send_ctrl_c kills it; it becomes the current process only in
   a step that released it, and no blocked process is ever current when a
   trap returns. *)
C26_BlockedUntilReleased ==
    [][\A p \in DOMAIN process_table :
        process_table[p].state \in {"Waiting", "WaitingForInput"} =>
            LET t == last_trap'
                died == t.op \in {"exit", "ctrl_c"} /\ p \in t.woken
                       /\ process_table[p].state = "Waiting"
                byte == t.op = "uart" /\ p \in t.woken
                       /\ process_table[p].state = "WaitingForInput"
                killed == t.op = "ctrl_c" /\ t.arg.pid = p
            IN  /\ p \notin DOMAIN process_table' <=> killed
                /\ p \in DOMAIN process_table' =>
                       /\ process_table'[p].state # process_table[p].state =>
                              died \/ byte
                       /\ (died \/ byte) =>
                              process_table'[p].state = ReadyState(current_process', p)
                       /\ current_process' = p => died \/ byte
                       /\ process_table'[p].state \in {"Waiting", "WaitingForInput"} =>
                              current_process' # p]_vars

\* a byte has released the processes that waited for input while another
\* process still waits for a process
C26_Witness ==
    /\ last_trap.op = "uart"
    /\ last_trap.woken # {}
    /\ \A p \in last_trap.woken : process_table[p].state \in {"Runnable", "Running"}
    /\ \E q \in DOMAIN process_table : process_table[q].state = "Waiting"

----------------------------------------------------------------------------
(* C27: after a trap that called schedule() and did not shut down, either a
   process is installed and the timer is armed, or no process of the
   non-empty table is Runnable and the dummy is current on the kernel page
   table, with sepc at wfi_loop, return to supervisor mode, sscratch at the
   kernel trap frame and the timer disabled.  When push called schedule(),
   push itself arms the timer afterwards. *)
C27_IdleWhenNoneRunnable ==
    [][LET t == last_trap'
           from_push == /\ t.op = "uart"
                        /\ stdin_buffer.wakeup_queue # {}
                        /\ current_process = NEVER_PID
       IN  ((ScheduleCalled(t, process_table') \/ from_push) /\ halted' = "no") =>
               IF current_process' = NEVER_PID
               THEN /\ DOMAIN process_table' # {}
                    /\ \A p \in DOMAIN process_table' :
                           process_table'[p].state \notin {"Runnable", "Running"}
                    /\ cpu'.satp = KERNEL_PAGE_TABLES
                    /\ cpu'.sepc = wfi_loop
                    /\ cpu'.kmode
                    /\ cpu'.sscratch = KernelTrapFrame
                    /\ ~from_push => ~cpu'.timer
               ELSE /\ cpu'.timer
                    /\ process_table'[current_process'].state = "Running"]_vars

\* the last process that could run has blocked for input: the hart idles
\* with the timer off while the table holds several processes
C27_Witness ==
    /\ last_trap.op = "read_input_wait"
    /\ halted = "no"
    /\ current_process = NEVER_PID
    /\ Cardinality(DOMAIN process_table) >= 2
    /\ ~cpu.timer
    /\ cpu.sepc = wfi_loop
    /\ cpu.kmode
    /\ \E p \in DOMAIN process_table : process_table[p].state = "Waiting"

----------------------------------------------------------------------------
\* the context of process p as the next return to it will see it: the hart's
\* registers while p is current, the saved ones otherwise
Context(pt, cur, c, p) ==
    IF cur = p
    THEN [a0 |-> c.a0, pc |-> c.sepc, in_kernel_mode |-> c.kmode]
    ELSE [a0 |-> pt[p].a0, pc |-> pt[p].pc, in_kernel_mode |-> pt[p].in_kernel_mode]

(* C28: an interrupt that deschedules the current process saves the hart's
   a0, sepc and mode flag as its context; the saved context of a process
   that is not current is changed by no step, except that a step that wakes
   the process writes its a0; and the step that installs a process puts
   exactly that context into the hart and activates the process's page
   table. *)
C28_ContextRoundTrip ==
    /\ [][(last_trap'.op \in {"timer", "ctrl_c"}
              /\ current_process \in DOMAIN process_table') =>
            Context(process_table', current_process', cpu', current_process)
                = [a0 |-> cpu.a0, pc |-> cpu.sepc, in_kernel_mode |-> cpu.kmode]]_vars
    /\ [][\A p \in DOMAIN process_table \cap DOMAIN process_table' :
            p # current_process =>
                LET before == Context(process_table, current_process, cpu, p)
                    after == Context(process_table', current_process', cpu', p)
                IN  /\ after.pc = before.pc
                    /\ after.in_kernel_mode = before.in_kernel_mode
                    /\ p \notin last_trap'.woken => after.a0 = before.a0
                    /\ current_process' = p => cpu'.satp = p]_vars

\* a timer interrupt has put a process back on the hart that had been
\* descheduled after its execute call: it finds the new pid in a0 and
\* continues after the ecall
C28_Witness ==
    /\ last_trap.op = "timer"
    /\ last_trap.caller \notin {NEVER_PID, current_process}
    /\ current_process \in DOMAIN process_table
    /\ cpu.a0 \in 2..MaxPid
    /\ cpu.sepc = 4
    /\ ~cpu.kmode
    /\ cpu.satp = current_process

----------------------------------------------------------------------------
(* C29, as stated: the saved pc, mode flag and register state of the dummy
   are never written. *)
C29_DummyNeverWritten == [][dummy_process' = dummy_process]_vars

(* C29, amended: queue_current_process_back saves the hart's sepc, mode
   flag and a0 into whatever is current, the dummy included: a timer
   interrupt on the idle hart and every send_ctrl_c leave them in the dummy;
   the dummy's saved context changes only in a step that calls schedule();
   and it is never installed: while the dummy is current the hart is in
   supervisor mode at wfi_loop on the kernel page table. *)
C29_DummySavedNeverInstalled ==
    /\ [][((last_trap'.op = "timer" /\ current_process = NEVER_PID)
              \/ last_trap'.op = "ctrl_c") =>
            dummy_process' =
                [pc |-> cpu.sepc, in_kernel_mode |-> cpu.kmode, a0 |-> cpu.a0]]_vars
    /\ [][dummy_process' # dummy_process =>
            LET t == last_trap'
            IN  \/ ScheduleCalled(t, process_table') /\ PreviousPid(t) = NEVER_PID
                \/ /\ t.op = "uart"
                   /\ stdin_buffer.wakeup_queue # {}
                   /\ current_process = NEVER_PID]_vars
    /\ []((halted = "no" /\ current_process = NEVER_PID) =>
            /\ cpu.sepc = wfi_loop
            /\ cpu.kmode
            /\ cpu.satp = KERNEL_PAGE_TABLES)

\* the hart idles at wfi_loop in supervisor mode while the dummy holds the
\* user context that the last process left when it blocked
C29_Witness ==
    /\ halted = "no"
    /\ current_process = NEVER_PID
    /\ cpu.sepc = wfi_loop
    /\ cpu.kmode
    /\ dummy_process.pc # wfi_loop
    /\ ~dummy_process.in_kernel_mode
    /\ DOMAIN process_table # {}

----------------------------------------------------------------------------
(* C30: every process entry that a step removes from the table (by
   kill_current_process or by send_ctrl_c killing its victim) is dropped
   while the kernel page table is the active one, and in every state the
   page table active on the hart is the kernel's or that of a process in the
   process table. A process's page table is identified with its pid. *)
C30_KernelTableBeforeDrop ==
    /\ [][\A p \in DOMAIN process_table \ DOMAIN process_table' :
            /\ last_trap'.op \in {"exit", "ctrl_c"}
            /\ last_trap'.dropped = {[pid |-> p, satp |-> KERNEL_PAGE_TABLES]}]_vars
    /\ [](cpu.satp = KERNEL_PAGE_TABLES \/ cpu.satp \in DOMAIN process_table)

\* send_ctrl_c has killed the process that was running on its own page table,
\* and another process runs on its own
C30_Witness ==
    /\ last_trap.op = "ctrl_c"
    /\ last_trap.caller # NEVER_PID
    /\ last_trap.arg.pid = last_trap.caller
    /\ last_trap.dropped = {[pid |-> last_trap.caller, satp |-> KERNEL_PAGE_TABLES]}
    /\ last_trap.caller \notin DOMAIN process_table
    /\ current_process \in DOMAIN process_table
    /\ cpu.satp = current_process

----------------------------------------------------------------------------
(* C32: after the ecall that process P issued at address A has been
   dispatched, the pc of P (in sepc if P is still current, saved in P
   otherwise) is A + 4 as long as P is in the table, and the pc of every other
   process is what it was before the trap: the process that the trap installs
   runs at its own saved pc, not at A + 4. *)
C32_SepcAdvance ==
    [][(last_trap'.op \in SyscallNames /\ halted' = "no") =>
        LET P == last_trap'.caller
            A == last_trap'.ecall_pc
        IN  /\ P \in DOMAIN process_table' =>
                   Context(process_table', current_process', cpu', P).pc = A + 4
            /\ \A Q \in (DOMAIN process_table \cap DOMAIN process_table') \ {P} :
                   Context(process_table', current_process', cpu', Q).pc =
                       Context(process_table, current_process, cpu, Q).pc]_vars

\* P has exited at address 8 and the process installed in its place runs at
\* the address saved for it, which is neither the entry point nor 8 + 4
C32_Witness ==
    /\ last_trap.op = "exit"
    /\ last_trap.ecall_pc = 8
    /\ last_trap.caller \notin DOMAIN process_table
    /\ current_process \in DOMAIN process_table
    /\ cpu.sepc = 4
    /\ halted = "no"

----------------------------------------------------------------------------
\* a sequence without the element x
Without(seq, x) == SelectSeq(seq, LAMBDA e : e # x)

\* the block a successful alloc has handed out
ChosenBlock(h2) == from_data_ptr(h2.last.ptr)

\* its total size when alloc chose it: that of the free block, or of the
\* pages just taken
ChosenSize(h, h2) ==
    IF ChosenBlock(h2) \in DOMAIN h.blocks
    THEN h.blocks[ChosenBlock(h2)].size
    ELSE from_pages(h2.pages - h.pages)

\* the alloc split its block: the allocation keeps the rounded request, the
\* tail holds all the rest and is the new head of the free list
WasSplit(h, h2) ==
    LET block == ChosenBlock(h2)
        requested_size == from_layout(h2.last.size)
        tail == block + requested_size
    IN  /\ h2.blocks[block].size = requested_size
        /\ tail \in DOMAIN h2.blocks
        /\ h2.blocks[tail].size = ChosenSize(h, h2) - requested_size
        /\ FreeSeq(h2) = <<tail>> \o Without(FreeSeq(h), block)

\* the alloc handed out the whole block and the free list gained nothing
WasUnsplit(h, h2) ==
    /\ h2.blocks[ChosenBlock(h2)].size = ChosenSize(h, h2)
    /\ FreeSeq(h2) = Without(FreeSeq(h), ChosenBlock(h2))

(* C33, as stated: alloc splits the chosen block if and only if its total
   size is larger than the rounded request plus MINIMUM_SIZE. *)
C33_SplitIffLarger ==
    [][(heap'.last.op = "alloc" /\ heap'.last.ptr # NULL /\ ~heap'.panicked) =>
        IF ChosenSize(heap, heap') > from_layout(heap'.last.size) + MINIMUM_SIZE
        THEN WasSplit(heap, heap')
        ELSE WasUnsplit(heap, heap')]_vars

(* C33, amended: alloc splits the chosen block if and only if its total size
   is at least the rounded request plus MINIMUM_SIZE, a tail of exactly
   MINIMUM_SIZE included; when it splits, the allocation keeps the rounded
   request and the tail with all remaining bytes becomes the head of the free
   list; otherwise the whole block is handed out and the free list gains no
   block. *)
C33_SplitIffRoomForBlock ==
    [][(heap'.last.op = "alloc" /\ heap'.last.ptr # NULL /\ ~heap'.panicked) =>
        IF ChosenSize(heap, heap') >= from_layout(heap'.last.size) + MINIMUM_SIZE
        THEN WasSplit(heap, heap')
        ELSE WasUnsplit(heap, heap')]_vars

\* an alloc has split a block that was exactly MINIMUM_SIZE larger than the
\* rounded request: the head of the free list is a block of MINIMUM_SIZE
\* that starts where the allocation ends
C33_Witness ==
    /\ heap.last.op = "alloc"
    /\ heap.last.ptr # NULL
    /\ heap.blocks[ChosenBlock(heap)].size = from_layout(heap.last.size)
    /\ heap.genesis_next = ChosenBlock(heap) + from_layout(heap.last.size)
    /\ heap.blocks[heap.genesis_next].size = MINIMUM_SIZE

----------------------------------------------------------------------------
(* C34: on every heap the allocator reaches and for every layout size,
   find_and_remove with the rounded request returns the first block of the
   free list that is at least that large, with its next cleared, and leaves
   the list as it was without that block, all sizes unchanged; it returns
   None exactly when no block of the list is large enough, and then the heap
   is unchanged. Every alloc hands out that block when there is one and
   takes pages only when there is none. *)
C34_FirstFit ==
    /\ [](~heap.panicked =>
            \A size \in HeapSizes :
                LET r == find_and_remove(heap, from_layout(size))
                IN  IF Fitting(heap, size) = {}
                    THEN r.block = NULL /\ r.h = heap
                    ELSE /\ r.block = FirstFit(heap, size)
                         /\ r.h.blocks[r.block].next = NULL
                         /\ FreeSeq(r.h) = Without(FreeSeq(heap), r.block)
                         /\ DOMAIN r.h.blocks = DOMAIN heap.blocks
                         /\ \A b \in DOMAIN heap.blocks :
                                r.h.blocks[b].size = heap.blocks[b].size)
    /\ [][(heap'.last.op = "alloc" /\ ~heap'.panicked) =>
            LET size == heap'.last.size
            IN  IF Fitting(heap, size) = {}
                THEN heap'.last.ptr = NULL \/ ChosenBlock(heap') \notin DOMAIN heap.blocks
                ELSE /\ heap'.last.ptr = get_data_ptr(FirstFit(heap, size))
                     /\ heap'.pages = heap.pages
                     /\ heap'.blocks[FirstFit(heap, size)].next = NULL
                     /\ \A b \in FreeList(heap) \ {FirstFit(heap, size)} :
                            /\ b \in FreeList(heap')
                            /\ heap'.blocks[b].size = heap.blocks[b].size]_vars

\* an alloc has taken a block of the free list that was not its head: the
\* head, too small for the request, is still the head, before another block
C34_Witness ==
    /\ heap.last.op = "alloc"
    /\ heap.last.ptr # NULL
    /\ heap.last.skipped >= 1
    /\ Len(FreeSeq(heap)) >= 2
    /\ heap.blocks[FreeSeq(heap)[1]].size < from_layout(heap.last.size)
    /\ FreeSeq(heap)[1] # ChosenBlock(heap) + from_layout(heap.last.size)
    /\ heap.blocks[ChosenBlock(heap)].next = NULL

----------------------------------------------------------------------------
(* C36: every byte handed to push is afterwards either the last byte of the
   data queue or the return value of a process of the table that was
   registered for wakeup. *)
C36_NoByteDropped ==
    [][last_trap'.op = "uart" =>
        LET byte == last_trap'.arg.n
        IN  \/ stdin_buffer'.data = Append(stdin_buffer.data, byte)
            \/ \E p \in stdin_buffer.wakeup_queue \cap DOMAIN process_table' :
                   ReturnValue(process_table', current_process', cpu', p) = byte]_vars

----------------------------------------------------------------------------
(* C37: every call of let_current_process_wait_for returns, whatever the
   pid: the hart leaves the handler, and none of the locks the call takes is
   one it holds at that moment. *)
C37_WaitAlwaysReturns ==
    [][last_trap'.op = "wait" =>
        LET tr == let_current_process_wait_for_locks(St, last_trap'.arg.pid)
        IN  /\ halted' # "deadlock"
            /\ \A i \in 1..Len(tr) :
                   tr[i].acq => tr[i].lock \notin HeldBefore(tr, i)]_vars

----------------------------------------------------------------------------
(* C38: no process is the current process of both harts. *)
C38_OneHartPerProcess ==
    hart1.cur # NEVER_PID => hart1.cur # current_process

(* C39: the current process of every hart is the dummy or a process of the
   process table; send_ctrl_c removes no process that another hart runs. *)
C39_CurrentInTable ==
    /\ current_process \in DOMAIN process_table \cup {NEVER_PID}
    /\ hart1.cur \in DOMAIN process_table \cup {NEVER_PID}

(* C35: bytes in the stdin queue mean that nobody is registered for a wakeup
   and that no process waits for input, whatever the other hart pushes
   between the pop and the register_wakeup of sys_read_input_wait. *)
C35_NoMissedByte ==
    stdin_buffer.data # <<>> =>
        /\ stdin_buffer.wakeup_queue = {}
        /\ \A p \in DOMAIN process_table : process_table[p].state # "WaitingForInput"

\* the saved trap frame or the pending return value of p is written in the step
FrameWritten(p) ==
    /\ p \in DOMAIN process_table \cap DOMAIN process_table'
    /\ \/ process_table'[p].a0 # process_table[p].a0
       \/ process_table'[p].pc # process_table[p].pc
       \/ process_table'[p].in_kernel_mode # process_table[p].in_kernel_mode

\* the current process of the hart that takes the step, and of the other one
ActingCur == IF last_trap'.op \in Hart1Ops THEN hart1.cur ELSE current_process
OtherCur == IF last_trap'.op \in Hart1Ops THEN current_process ELSE hart1.cur

(* C31: a process whose saved trap frame or return value is written is on no
   other hart, and it is not Running unless it is the current process that
   the writing hart itself has taken off the CPU by its trap. *)
C31_WrittenProcessNotRunning ==
    [][\A p \in DOMAIN process_table :
          FrameWritten(p) =>
              /\ p # OtherCur
              /\ p # ActingCur => process_table[p].state # "Running"]_vars
====
